---- MODULE Spec2Model ----
(***************************************************************************)
(* Model of the builder-projects CLI: the interactive creation flow of     *)
(* bin/index.ts (program.action) and the project scaffolding of            *)
(* utils/project-scaffolding.ts (createProjectStructure, the external      *)
(* generator adapter, the Vite structure reconciler, the skeleton builder  *)
(* and the initialization writer), over the file-system helpers of         *)
(* utils/file-system.ts.                                                   *)
(***************************************************************************)
EXTENDS Integers, Sequences, FiniteSets, TLC

VARIABLES
    pc,          \* position of program.action
    cfg,         \* the answers collected by the prompts
    fsys,        \* the file system: directories and files with their content
    execLog,     \* external commands run so far, in order
    result,      \* value returned by createProjectStructure and what produced it
    targets,     \* the path each post-creation step operated on
    exitCode,    \* process exit code (NoExit while running)
    thrown,      \* the exception that reached the catch block of program.action
    messages     \* user-visible outcome messages printed so far

vars == <<pc, cfg, fsys, execLog, result, targets, exitCode, thrown, messages>>

-----------------------------------------------------------------------------
(* Bounds of the model                                                     *)

\* longest name typed over NameAlphabet (the name MyApp is always tried too)
MaxNameLen == 1
\* how many parts of its usual output a generator run may lack
MaxMissing == 1
\* the last system call of installSkills that may be the failing one
MaxSkillFaultPoint == 4
\* longest build-tool / type-checker config (in lines) the alias step is run on
MaxConfigLines == 2

\* longest entry file (in lines) the reconciler is run on
MaxEntryLines == 2

\* longest list of skills combineSkills is applied to
MaxSkillList == 2

\* the first entries of AVAILABLE_MCPS, of ADDITIONAL_SKILLS the user may tick
NumSelectableMCPs == 1
NumSelectableSkills == 0

-----------------------------------------------------------------------------
(* Catalogues (types/*.ts)                                                 *)

BACKEND_LANGUAGES == <<"typescript", "javascript", "python", "go">>

FRONTEND_LANGUAGES == <<"typescript", "javascript">>

BACKEND_FRAMEWORKS ==
    [typescript |-> <<"express", "nestjs", "fastify">>,
     javascript |-> <<"express", "fastify">>,
     python     |-> <<"fastapi", "django", "flask">>,
     go         |-> <<"fiber", "gin", "echo">>]

FRONTEND_FRAMEWORKS ==
    [typescript |-> <<"react", "nextjs", "svelte", "angular">>,
     javascript |-> <<"react", "svelte">>]

FULLSTACK_FRAMEWORKS ==
    [typescript |-> <<"nextjs", "sveltekit">>,
     javascript |-> <<"nextjs", "sveltekit">>]

BACKEND_ARCHITECTURES == <<"mvc", "hexagonal", "layered", "layered-screaming">>

FRONTEND_ARCHITECTURES == <<"component-based", "feature-based">>

AVAILABLE_MCPS ==
    <<"playwright", "context7", "testsprite", "supabase",
      "postgres", "semgrep", "github", "notion">>

\* a skill of the catalogue: its display name and its directory
Skill(name, path) == [name |-> name, path |-> path]

DEFAULT_SKILLS ==
    [frontend  |-> <<Skill("TypeScript Expert", "typescript-expert"),
                     Skill("Frontend Design", "frontend-design"),
                     Skill("Web Design Guidelines", "web-design-guidelines"),
                     Skill("Frontend Testing Best Practices", "frontend-testing-best-practices"),
                     Skill("Clean Code", "clean-code")>>,
     backend   |-> <<Skill("TypeScript Expert", "typescript-expert"),
                     Skill("Clean Code", "clean-code"),
                     Skill("Performance", "performance")>>,
     fullstack |-> <<Skill("TypeScript Expert", "typescript-expert"),
                     Skill("Frontend Design", "frontend-design"),
                     Skill("Clean Code", "clean-code"),
                     Skill("Performance", "performance")>>]

FRAMEWORK_SKILLS ==
    [react     |-> <<Skill("React Best Practices", "react-best-practices")>>,
     nextjs    |-> <<Skill("Next.js 15", "nextjs-15")>>,
     svelte    |-> <<Skill("Svelte Components", "svelte-components"),
                     Skill("Svelte Frontend", "svelte-frontend")>>,
     angular   |-> <<>>,
     express   |-> <<>>,
     nestjs    |-> <<>>,
     fastify   |-> <<>>,
     fastapi   |-> <<>>,
     django    |-> <<>>,
     flask     |-> <<>>,
     fiber     |-> <<>>,
     gin       |-> <<>>,
     echo      |-> <<>>,
     sveltekit |-> <<Skill("Svelte Components", "svelte-components"),
                     Skill("Svelte Frontend", "svelte-frontend")>>]

ADDITIONAL_SKILLS ==
    <<Skill("E2E Testing Patterns", "e2e-testing-patterns"),
      Skill("Playwright E2E Testing", "playwright-e2e-testing"),
      Skill("UI Animation", "ui-animation"),
      Skill("UI Design System", "ui-design-system"),
      Skill("Vite", "vite"),
      Skill("Vitest", "vitest"),
      Skill("Agent Browser", "agent-browser"),
      Skill("Audit Website", "audit-website"),
      Skill("Context7", "context7"),
      Skill("Executing Plans", "executing-plans"),
      Skill("Writing Plans", "writing-plans"),
      Skill("Subagent Driven Development", "subagent-driven-development")>>

\* a registry that has lost the entry of sveltekit
FRAMEWORK_CLIS_WithoutSvelteKit == {"nestjs", "nextjs", "react", "svelte", "angular"}

\* Frameworks that have official CLIs
FRAMEWORK_CLIS == {"nestjs", "nextjs", "react", "svelte", "angular", "sveltekit"}

Range(s) == {s[i] : i \in 1..Len(s)}

Min(a, b) == IF a <= b THEN a ELSE b

-----------------------------------------------------------------------------
(* Names and paths.  A project name is a sequence of characters; a path is *)
(* a parent directory and a base name (path.join / dirname / basename).    *)

UpperCase == <<"A","B","C","D","E","F","G","H","I","J","K","L","M",
               "N","O","P","Q","R","S","T","U","V","W","X","Y","Z">>

LowerCase == <<"a","b","c","d","e","f","g","h","i","j","k","l","m",
               "n","o","p","q","r","s","t","u","v","w","x","y","z">>

Digits == {"0","1","2","3","4","5","6","7","8","9"}

\* String.prototype.toLowerCase on one character
ToLowerChar(c) ==
    IF \E i \in 1..26 : UpperCase[i] = c
    THEN LowerCase[CHOOSE i \in 1..26 : UpperCase[i] = c]
    ELSE c

ToLowerCase(s) == [i \in 1..Len(s) |-> ToLowerChar(s[i])]

\* the character class [a-z0-9-]
KebabChar(c) == c \in Range(LowerCase) \cup Digits \cup {"-"}

\* s.replace(/[^a-z0-9-]/g, "-")
ReplaceNonKebab(s) == [i \in 1..Len(s) |-> IF KebabChar(s[i]) THEN s[i] ELSE "-"]

NormalizeKebab(name) == ReplaceNonKebab(ToLowerCase(name))

\* a normalization that replaces the characters but forgets toLowerCase()
normalizeProjectNameNoLower(framework, projectName) ==
    CASE framework = "nestjs"  -> ReplaceNonKebab(projectName)
      [] framework = "angular" -> ReplaceNonKebab(projectName)
      [] OTHER                 -> projectName

normalizeProjectName(framework, projectName) ==
    CASE framework = "nestjs"  -> NormalizeKebab(projectName)
      [] framework = "angular" -> NormalizeKebab(projectName)
      [] OTHER                 -> projectName

\* the validate callback of the project-name prompt: /^[a-z0-9-_]+$/i
ValidName(input) ==
    /\ Len(input) > 0
    /\ \A i \in 1..Len(input) :
          input[i] \in Range(LowerCase) \cup Range(UpperCase) \cup Digits \cup {"-", "_"}

Cwd == "cwd"

NoPath == [parent |-> "", base |-> <<>>]

PathJoin(parent, name) == [parent |-> parent, base |-> name]

Dirname(p) == p.parent

Basename(p) == p.base

-----------------------------------------------------------------------------
(* File contents.  A file is a sequence of lines; a line is an import      *)
(* statement (with its quote character and its target, a sequence of path  *)
(* segments: './lib/Counter.svelte' is <<".", "lib", "Counter.svelte">>)    *)
(* or any other line.                                                      *)

Line(kind, name, quote, target, val) ==
    [kind |-> kind, name |-> name, quote |-> quote, target |-> target, val |-> val]

\* import '<target>'  /  import "<target>"
SideEffectImport(quote, target) == Line("import", "", quote, target, <<>>)

\* import <name> from '<target>'
DefaultImport(name, quote, target) == Line("import", name, quote, target, <<>>)

\* a line that is no import of a relocatable file
Code(text) == Line("code", text, "", <<>>, <<>>)

\* a line of a generated manifest or starter carrying the project name
Named(kind, val) == Line(kind, "", "", <<>>, val)

Quotes == {"'", "\""}

-----------------------------------------------------------------------------
(* File-system helpers (utils/file-system.ts).  An execution state st      *)
(* carries the directories, the files, the commands run, the number n of   *)
(* fallible system calls made so far, the index `fault` of the system call *)
(* that fails (0: none), the pending exception err and the errors written  *)
(* to the console (out).                                                   *)

NoError == "none"

IOError == "EIO"

\* the error of a system call on a path that does not exist
NotFound == "ENOENT"

CommandError == "Command failed"

CancelError == "User force closed the prompt"

Key(proj, rel) == <<proj, rel>>

\* F applied to the value of x: `const v = x; return F(v)`
Bind(x, F(_)) == CHOOSE r \in {F(v) : v \in {x}} : TRUE

Prefixes(rel) == {SubSeq(rel, 1, k) : k \in 0..Len(rel)}

Parent(rel) == SubSeq(rel, 1, Len(rel) - 1)

Throws(st) == st.err # NoError

\* the next fallible system call is the one that fails
Faulty(st) == st.n + 1 = st.fault

Tick(st) == [st EXCEPT !.n = @ + 1]

Raise(st, e) == [st EXCEPT !.err = e]

\* a catch block that swallows the exception
Caught(st) == [st EXCEPT !.err = NoError]

Start(f, log, fault) ==
    [dirs |-> f.dirs, files |-> f.files, log |-> log, n |-> 0, fault |-> fault, err |-> NoError,
     out |-> {}]

FsOf(st) == [dirs |-> st.dirs, files |-> st.files]

IsDir(st, proj, rel) == Key(proj, rel) \in st.dirs

IsFile(st, proj, rel) == Key(proj, rel) \in DOMAIN st.files

\* pathExists: fs.access, every error answered with false
pathExists(st, proj, rel) == IsDir(st, proj, rel) \/ IsFile(st, proj, rel)

\* createDirectory: fs.mkdir(dirPath, {recursive: true}); errors are rethrown
createDirectory(st0, proj, rel) ==
    Bind(st0, LAMBDA st :
    IF Throws(st) THEN st
    ELSE IF Faulty(st) THEN Raise(Tick(st), IOError)
    ELSE [Tick(st) EXCEPT !.dirs = @ \cup {Key(proj, r) : r \in Prefixes(rel)}]
    )

\* fs.writeFile(path, content)
fsWriteFile(st0, proj, rel, content) ==
    Bind(st0, LAMBDA st :
    IF Throws(st) THEN st
    ELSE IF Faulty(st) THEN Raise(Tick(st), IOError)
    ELSE IF ~IsDir(st, proj, Parent(rel)) THEN Raise(Tick(st), NotFound)
    ELSE [Tick(st) EXCEPT !.files =
             [k \in DOMAIN @ \cup {Key(proj, rel)} |->
                 IF k = Key(proj, rel) THEN content ELSE @[k]]]
    )

\* fs.readFile(path): the state after the call; the content is ReadContent
fsReadFile(st0, proj, rel) ==
    Bind(st0, LAMBDA st :
    IF Throws(st) THEN st
    ELSE IF Faulty(st) THEN Raise(Tick(st), IOError)
    ELSE IF ~IsFile(st, proj, rel) THEN Raise(Tick(st), NotFound)
    ELSE Tick(st)
    )

ReadContent(st, proj, rel) ==
    IF IsFile(st, proj, rel) THEN st.files[Key(proj, rel)] ELSE <<>>

\* writeFile: createDirectory(dirname) then fs.writeFile; errors are rethrown
writeFile(st, proj, rel, content) ==
    fsWriteFile(createDirectory(st, proj, Parent(rel)), proj, rel, content)

\* fs.rename(src, dest) of a file
fsRename(st0, proj, src, dest) ==
    Bind(st0, LAMBDA st :
    IF Throws(st) THEN st
    ELSE IF Faulty(st) THEN Raise(Tick(st), IOError)
    ELSE IF ~IsFile(st, proj, src) \/ ~IsDir(st, proj, Parent(dest)) THEN Raise(Tick(st), NotFound)
    ELSE [Tick(st) EXCEPT !.files =
             [k \in (DOMAIN @ \ {Key(proj, src)}) \cup {Key(proj, dest)} |->
                 IF k = Key(proj, dest) THEN @[Key(proj, src)] ELSE @[k]]]
    )

\* moveFile: createDirectory(dirname(dest)) then fs.rename; errors are rethrown
moveFile(st, proj, src, dest) ==
    fsRename(createDirectory(st, proj, Parent(dest)), proj, src, dest)

\* the entries of a directory, in the order fs.readdir lists them
Entries(st, proj, rel) ==
    {k[2][Len(rel) + 1] : k \in {d \in st.dirs \cup DOMAIN st.files :
        d[1] = proj /\ Len(d[2]) > Len(rel) /\ SubSeq(d[2], 1, Len(rel)) = rel}}

\* console.error(`Error reading directory ${dirPath}:`, error)
ReadDirError(rel) ==
    IF rel = <<"src">> THEN "Error reading directory src" ELSE "Error reading directory src/lib"

\* readDirectory: fs.readdir; every error is logged and answered with []
readDirectoryState(st0, proj, rel) ==
    Bind(st0, LAMBDA st :
        IF Throws(st) THEN st
        ELSE IF Faulty(st) \/ ~IsDir(st, proj, rel)
        THEN [Tick(st) EXCEPT !.out = @ \cup {ReadDirError(rel)}]
        ELSE Tick(st)
    )

readDirectory(st0, proj, rel) ==
    Bind(st0, LAMBDA st :
    IF Throws(st) \/ Faulty(st) \/ ~IsDir(st, proj, rel) THEN {} ELSE Entries(st, proj, rel)
    )

\* execSync(command): the command is recorded; a nonzero exit throws
execSync(st0, cmd, cwd, ok) ==
    Bind(st0, LAMBDA st :
       IF Throws(st) THEN st
       ELSE Bind([st EXCEPT !.log = Append(@, [cmd |-> cmd, cwd |-> cwd, ok |-> ok])],
                 LAMBDA ran : IF ok THEN ran ELSE Raise(ran, CommandError)))

\* a pre-flight check that answers false whatever `which` says
checkCommandExistsNever(st, which, exists) ==
    [st |-> Caught(execSync(st, which, NoPath, exists)), ret |-> FALSE]

\* checkCommandExists(command): `which <command>` is run; a nonzero exit is
\* caught and answered with false
checkCommandExists(st, which, exists) ==
    [st |-> Caught(execSync(st, which, NoPath, exists)), ret |-> exists]

-----------------------------------------------------------------------------
(* The external generators, as black boxes: what `create-vite`, `nest new`,*)
(* `create-next-app`, `sv create` and `ng new` leave in parentDir/<name>.   *)
(* `w` is the outside world of one invocation: w.gen is the generator's    *)
(* outcome, w.missing the parts of the usual output that this version of   *)
(* the template does not produce, w.quote the quote character it uses.     *)

Ext(language) == IF language = "typescript" THEN "ts" ELSE "js"

ReactApp(language) == IF language = "typescript" THEN "App.tsx" ELSE "App.jsx"

ReactMain(language) == IF language = "typescript" THEN "main.tsx" ELSE "main.jsx"

SvelteMain(language) == IF language = "typescript" THEN "main.ts" ELSE "main.js"

ViteConfig(language) == IF language = "typescript" THEN "vite.config.ts" ELSE "vite.config.js"

\* the lines, less the import of tgt when this output lacks it
Without(w, item, tgt, lines) ==
    SelectSeq(lines, LAMBDA l : ~(item \in w.missing /\ l.kind = "import" /\ l.target = tgt))

\* files (path -> content) of the create-vite react / react-ts template
ReactTemplate(language, w) ==
    LET q == w.quote
        all ==
          [rel \in {<<"package.json">>, <<"index.html">>, <<ViteConfig(language)>>,
                    <<"src", ReactMain(language)>>, <<"src", ReactApp(language)>>,
                    <<"src", "App.css">>, <<"src", "index.css">>,
                    <<"src", "assets", "react.svg">>} |->
             CASE rel = <<"src", ReactMain(language)>> ->
                    Without(w, "import ./index.css", <<".", "index.css">>,
                        <<Code("import { createRoot } from 'react-dom/client'"),
                          SideEffectImport(q, <<".", "index.css">>),
                          DefaultImport("App", q, <<".", ReactApp(language)>>),
                          Code("createRoot(document.getElementById('root')).render(<App />)")>>)
               [] rel = <<"src", ReactApp(language)>> ->
                    Without(w, "import ./App.css", <<".", "App.css">>,
                        <<DefaultImport("reactLogo", q, <<".", "assets", "react.svg">>),
                          SideEffectImport(q, <<".", "App.css">>),
                          Code("export default App")>>)
               [] OTHER -> <<Code("generated")>>]
    IN  [rel \in {r \in DOMAIN all : r[Len(r)] \notin w.missing} |-> all[rel]]

\* files of the create-vite svelte / svelte-ts template
SvelteTemplate(language, w) ==
    LET q == w.quote
        tsOnly == IF language = "typescript" THEN {<<"tsconfig.app.json">>} ELSE {}
        all ==
          [rel \in {<<"package.json">>, <<"index.html">>, <<ViteConfig(language)>>,
                    <<"svelte.config.js">>,
                    <<"src", SvelteMain(language)>>, <<"src", "App.svelte">>,
                    <<"src", "app.css">>, <<"src", "lib", "Counter.svelte">>,
                    <<"src", "assets", "svelte.svg">>} \cup tsOnly |->
             CASE rel = <<"src", SvelteMain(language)>> ->
                    Without(w, "import ./app.css", <<".", "app.css">>,
                        <<Code("import { mount } from 'svelte'"),
                          SideEffectImport(q, <<".", "app.css">>),
                          DefaultImport("App", q, <<".", "App.svelte">>),
                          Code("export default app")>>)
               [] rel = <<"src", "App.svelte">> ->
                    Without(w, "import ./lib/Counter.svelte", <<".", "lib", "Counter.svelte">>,
                        <<DefaultImport("svelteLogo", q, <<".", "assets", "svelte.svg">>),
                          DefaultImport("Counter", q, <<".", "lib", "Counter.svelte">>),
                          Code("<Counter />")>>)
               [] rel = <<ViteConfig(language)>> ->
                        <<Line("import", "{ defineConfig }", q, <<"vite">>, <<>>),
                          Line("import", "{ svelte }", q, <<"@sveltejs", "vite-plugin-svelte">>, <<>>),
                          Code("export default defineConfig({"),
                          Code("plugins: [svelte()],"),
                          Code("})")>>
               [] rel = <<"tsconfig.app.json">> ->
                        <<Code("{"),
                          Code("\"extends\": \"@tsconfig/svelte/tsconfig.json\","),
                          Code("\"compilerOptions\": {"),
                          Code("\"target\": \"ES2022\""),
                          Code("},"),
                          Code("}")>>
               [] OTHER -> <<Code("generated")>>]
    IN  [rel \in {r \in DOMAIN all : r[Len(r)] \notin w.missing} |-> all[rel]]

\* files of the other generators' output, which the tool never looks into
OpaqueTemplate(name) ==
    [rel \in {<<"package.json">>, <<"src", "main.ts">>} |->
        IF rel = <<"package.json">> THEN <<Named("name", name)>> ELSE <<Code("generated")>>]

\* what is left behind by a generator that fails half-way
PartialTemplate(name) ==
    [rel \in {<<"package.json">>} |-> <<Named("name", name)>>]

GeneratorOutput(framework, language, name, w) ==
    CASE w.gen = "partial"    -> PartialTemplate(name)
      [] framework = "react"  -> ReactTemplate(language, w)
      [] framework = "svelte" -> SvelteTemplate(language, w)
      [] OTHER                -> OpaqueTemplate(name)

\* the parts of a generator's usual output that a given run may lack
Optional(framework, language) ==
    CASE framework = "react" ->
           {"App.css", "index.css", ReactApp(language), ReactMain(language),
            "import ./App.css", "import ./index.css"}
      [] framework = "svelte" ->
           {"app.css", "Counter.svelte", "App.svelte", SvelteMain(language),
            ViteConfig(language), "tsconfig.app.json", "import ./app.css", "import ./lib/Counter.svelte"}
      [] OTHER -> {}

\* the generator process: creates <cwd>/<name> with its output, or fails
\* (w.gen = "fail": before writing anything; "partial": after writing a part)
RunGenerator(st0, cmd, parentDir, name, framework, language, w) ==
    Bind(st0, LAMBDA st :
       IF Throws(st) THEN st
       ELSE execSync(
              IF w.gen = "fail" THEN st
              ELSE Bind(GeneratorOutput(framework, language, name, w), LAMBDA out :
                     [st EXCEPT
                        !.dirs  = @ \cup {Key(PathJoin(parentDir, name), r) :
                                            r \in UNION {Prefixes(Parent(f)) : f \in DOMAIN out}},
                        !.files = [k \in DOMAIN @ \cup {Key(PathJoin(parentDir, name), f) : f \in DOMAIN out} |->
                                      IF k[1] = PathJoin(parentDir, name) /\ k[2] \in DOMAIN out
                                      THEN out[k[2]] ELSE @[k]]]),
              cmd, PathJoin(parentDir, <<>>), w.gen = "ok"))

-----------------------------------------------------------------------------
(* Structure reconciler (project-scaffolding.ts): textual patches          *)

\* content.replace(/regex/g, replacement): every matching line is replaced
ReplaceAll(content, Match(_), new) ==
    [i \in 1..Len(content) |-> IF Match(content[i]) THEN new ELSE content[i]]

\* content.replace(/regex/, replacement): the first match becomes newLines
ReplaceFirst(content, Match(_), newLines) ==
    IF \E i \in 1..Len(content) : Match(content[i])
    THEN LET i == CHOOSE j \in 1..Len(content) :
                     Match(content[j]) /\ \A k \in 1..(j - 1) : ~Match(content[k])
         IN  SubSeq(content, 1, i - 1) \o newLines \o SubSeq(content, i + 1, Len(content))
    ELSE content

Includes(content, Match(_)) == \E i \in 1..Len(content) : Match(content[i])

\* /import ['"]<target>['"]/
IsSideEffectImportOf(l, target) ==
    l.kind = "import" /\ l.name = "" /\ l.quote \in Quotes /\ l.target = target

\* /import\s+<name>\s+from\s+['"]<target>['"]/
IsDefaultImportOf(l, name, target) ==
    l.kind = "import" /\ l.name = name /\ l.quote \in Quotes /\ l.target = target

\* the first of the names that exists in dir, or "" (for ... if (exists) ... break)
FirstExisting(st0, proj, dir, names) ==
    Bind(st0, LAMBDA st :
    IF \E i \in 1..Len(names) : pathExists(st, proj, dir \o <<names[i]>>)
    THEN names[CHOOSE i \in 1..Len(names) :
                  /\ pathExists(st, proj, dir \o <<names[i]>>)
                  /\ \A k \in 1..(i - 1) : ~pathExists(st, proj, dir \o <<names[k]>>)]
    ELSE ""
    )

\* fs.readFile, patch, fs.writeFile
PatchFile(st0, proj, rel, Patch(_)) ==
    Bind(st0, LAMBDA st :
       fsWriteFile(fsReadFile(st, proj, rel), proj, rel, Patch(ReadContent(st, proj, rel))))

\* a rewrite that takes every import of ./index.css for the literal one
updateMainCssImportsAnyImport(st0, proj, srcPath, architecture) ==
    Bind(st0, LAMBDA st :
    LET mainFile == FirstExisting(st, proj, srcPath, <<"main.tsx", "main.jsx">>)
        new == IF architecture = "feature-based"
               THEN SideEffectImport("'", <<".", "shared", "styles", "index.css">>)
               ELSE SideEffectImport("'", <<".", "styles", "index.css">>)
    IN  IF Throws(st) \/ mainFile = "" THEN st
        ELSE PatchFile(st, proj, srcPath \o <<mainFile>>,
                 LAMBDA c : ReplaceAll(c, LAMBDA l : l.kind = "import" /\ l.target = <<".", "index.css">>, new))
    )

\* Update CSS imports in main.tsx/jsx after reorganization
updateMainCssImports(st0, proj, srcPath, architecture) ==
    Bind(st0, LAMBDA st :
    LET mainFile == FirstExisting(st, proj, srcPath, <<"main.tsx", "main.jsx">>)
        new == IF architecture = "feature-based"
               THEN SideEffectImport("'", <<".", "shared", "styles", "index.css">>)
               ELSE SideEffectImport("'", <<".", "styles", "index.css">>)
    IN  IF Throws(st) \/ mainFile = "" THEN st
        ELSE PatchFile(st, proj, srcPath \o <<mainFile>>,
                 LAMBDA c : ReplaceAll(c, LAMBDA l : IsSideEffectImportOf(l, <<".", "index.css">>), new))
    )

\* Update CSS imports in App component after reorganization
updateAppCssImports(st0, proj, srcPath, cssPath, architecture) ==
    Bind(st0, LAMBDA st :
    LET appFile == FirstExisting(st, proj, srcPath, <<"App.tsx", "App.jsx", "App.svelte">>)
        new == SideEffectImport("'", <<".">> \o cssPath \o <<"App.css">>)
    IN  IF Throws(st) \/ appFile = "" THEN st
        ELSE PatchFile(st, proj, srcPath \o <<appFile>>,
                 LAMBDA c : ReplaceAll(c, LAMBDA l : IsSideEffectImportOf(l, <<".", "App.css">>), new))
    )

\* Update imports in Svelte App.svelte for Counter component
updateSvelteAppImports(st0, proj, srcPath, counterRelativePath) ==
    Bind(st0, LAMBDA st :
    LET libPath == IF Len(counterRelativePath) > 0 /\ Head(counterRelativePath) = "lib"
                   THEN Tail(counterRelativePath) ELSE counterRelativePath
        new == DefaultImport("Counter", "'", <<"$lib">> \o libPath \o <<"Counter.svelte">>)
    IN  IF Throws(st) \/ ~pathExists(st, proj, srcPath \o <<"App.svelte">>) THEN st
        ELSE PatchFile(st, proj, srcPath \o <<"App.svelte">>,
                 LAMBDA c : ReplaceAll(
                     ReplaceAll(c, LAMBDA l : IsDefaultImportOf(l, "Counter", <<".", "lib", "Counter.svelte">>), new),
                     LAMBDA l : IsDefaultImportOf(l, "Counter", <<"$lib", "Counter.svelte">>), new))
    )

\* Update CSS import in Svelte main.ts
updateSvelteCssImport(st0, proj, srcPath, architecture) ==
    Bind(st0, LAMBDA st :
    LET cssPath == IF architecture = "feature-based"
                   THEN <<"$lib", "shared", "styles", "app.css">>
                   ELSE <<"$lib", "styles", "app.css">>
    IN  IF Throws(st) \/ ~pathExists(st, proj, srcPath \o <<"main.ts">>) THEN st
        ELSE PatchFile(st, proj, srcPath \o <<"main.ts">>,
                 LAMBDA c : ReplaceAll(c, LAMBDA l : IsSideEffectImportOf(l, <<".", "app.css">>),
                                       SideEffectImport("'", cssPath)))
    )

ResolveAliasLine == Code("resolve: { alias: { $lib: path.resolve(\"src/lib/\") } },")

PathsAliasLine == Code("\"paths\": { \"$lib/*\": [\"src/lib/*\"] },")

\* a resolve option that sets no alias, a paths option that maps no $lib
OtherResolveLine == Code("resolve: { dedupe: [\"svelte\"] },")

OtherPathsLine == Code("\"paths\": { \"@/*\": [\"src/*\"] },")

\* viteContent.includes('resolve:')
ContainsResolve(l) == l \in {ResolveAliasLine, OtherResolveLine}

\* tsconfigContent.includes('"paths"')
ContainsPaths(l) == l \in {PathsAliasLine, OtherPathsLine}

\* viteContent.includes('import path from')
IsPathImport(l) == l.kind = "import" /\ l.name = "path"

IsSveltePluginImport(l) ==
    /\ l.kind = "import" /\ l.quote \in Quotes
    /\ l.name \in {"{ svelte }", "{ defineConfig }"}
    /\ l.target = <<"@sveltejs", "vite-plugin-svelte">>

\* a patch of vite.config.ts that does not look for the path import first
PatchViteConfigUnguarded(content) ==
    LET withImport ==
          ReplaceFirst(content, IsSveltePluginImport,
              <<Line("import", "{ svelte }", "\"", <<"@sveltejs", "vite-plugin-svelte">>, <<>>),
                DefaultImport("path", "\"", <<"node:path">>)>>)
    IN  IF ~Includes(withImport, ContainsResolve)
        THEN ReplaceFirst(withImport, LAMBDA l : l = Code("plugins: [svelte()],"),
                 <<Code("plugins: [svelte()],"), ResolveAliasLine>>)
        ELSE withImport

\* the patch of vite.config.ts
PatchViteConfig(content) ==
    LET withImport ==
          IF ~Includes(content, IsPathImport)
          THEN ReplaceFirst(content, IsSveltePluginImport,
                   <<Line("import", "{ svelte }", "\"", <<"@sveltejs", "vite-plugin-svelte">>, <<>>),
                     DefaultImport("path", "\"", <<"node:path">>)>>)
          ELSE content
    IN  IF ~Includes(withImport, ContainsResolve)
        THEN ReplaceFirst(withImport, LAMBDA l : l = Code("plugins: [svelte()],"),
                 <<Code("plugins: [svelte()],"), ResolveAliasLine>>)
        ELSE withImport

\* the patch of tsconfig.app.json
PatchTsconfigApp(content) ==
    ReplaceFirst(content, LAMBDA l : l = Code("\"compilerOptions\": {"),
        <<Code("\"compilerOptions\": {"), PathsAliasLine>>)

\* Configure $lib aliases for Svelte in vite.config.ts and tsconfig.app.json
configureSvelteAliases(st0, proj) ==
    Bind(st0, LAMBDA st :
       Bind(IF Throws(st) \/ ~pathExists(st, proj, <<"vite.config.ts">>) THEN st
            ELSE PatchFile(st, proj, <<"vite.config.ts">>, PatchViteConfig),
            LAMBDA vite :
               IF Throws(vite) \/ ~pathExists(vite, proj, <<"tsconfig.app.json">>) THEN vite
               ELSE Bind(fsReadFile(vite, proj, <<"tsconfig.app.json">>), LAMBDA read :
                       IF Throws(read) THEN read
                       ELSE IF ~Includes(ReadContent(vite, proj, <<"tsconfig.app.json">>),
                                         ContainsPaths)
                            THEN fsWriteFile(read, proj, <<"tsconfig.app.json">>,
                                     PatchTsconfigApp(ReadContent(vite, proj, <<"tsconfig.app.json">>)))
                            ELSE read)))

-----------------------------------------------------------------------------
(* Structure reconciler: directory overlay and relocation                  *)

RECURSIVE CreateAll(_, _, _)
\* consecutive `await createDirectory(...)` statements
CreateAll(st0, proj, rels) ==
    Bind(st0, LAMBDA st :
    IF rels = <<>> THEN st
    ELSE CreateAll(createDirectory(st, proj, Head(rels)), proj, Tail(rels))
    )

RECURSIVE MoveEachUnchecked(_, _, _, _, _)
\* a relocation loop that moves each table file without looking for it
MoveEachUnchecked(st0, proj, dir, files, moves) ==
    Bind(st0, LAMBDA st :
    IF moves = <<>> \/ Throws(st) THEN st
    ELSE MoveEachUnchecked(
             moveFile(st, proj, dir \o <<Head(moves).file>>, Head(moves).dest \o <<Head(moves).file>>),
             proj, dir, files, Tail(moves))
    )

RECURSIVE MoveEach(_, _, _, _, _)
\* for (const file of files) { if (!exists) continue; if (file === ...) moveFile(...) }
\* moves: the files the loop body relocates, in directory order
MoveEach(st0, proj, dir, files, moves) ==
    Bind(st0, LAMBDA st :
    IF moves = <<>> \/ Throws(st) THEN st
    ELSE LET m == Head(moves)
             next == IF m.file \in files /\ pathExists(st, proj, dir \o <<m.file>>)
                     THEN moveFile(st, proj, dir \o <<m.file>>, m.dest \o <<m.file>>)
                     ELSE st
         IN  MoveEach(next, proj, dir, files, Tail(moves))
    )

Move(file, dest) == [file |-> file, dest |-> dest]

\* Reorganize React project
reorganizeReactProject(st0, proj, srcPath, architecture) ==
    Bind(st0, LAMBDA st :
    LET files == readDirectory(st, proj, srcPath)
        s0 == readDirectoryState(st, proj, srcPath)
    IN  IF architecture = "feature-based"
        THEN LET s1 == CreateAll(s0, proj,
                         <<srcPath \o <<"features", "example", "components">>,
                           srcPath \o <<"features", "example", "hooks">>,
                           srcPath \o <<"features", "example", "utils">>,
                           srcPath \o <<"features", "example", "styles">>,
                           srcPath \o <<"shared", "components">>,
                           srcPath \o <<"shared", "hooks">>,
                           srcPath \o <<"shared", "utils">>,
                           srcPath \o <<"shared", "styles">>>>)
                  s2 == MoveEach(s1, proj, srcPath, files \ {"assets"},
                         <<Move("App.css", srcPath \o <<"features", "example", "styles">>),
                           Move("index.css", srcPath \o <<"shared", "styles">>)>>)
                  s3 == updateAppCssImports(s2, proj, srcPath, <<"features", "example", "styles">>, architecture)
             IN  updateMainCssImports(s3, proj, srcPath, architecture)
        ELSE LET s1 == CreateAll(s0, proj,
                         <<srcPath \o <<"components", "common">>,
                           srcPath \o <<"components", "layout">>,
                           srcPath \o <<"hooks">>,
                           srcPath \o <<"utils">>,
                           srcPath \o <<"styles">>>>)
                  s2 == MoveEach(s1, proj, srcPath, files \ {"assets"},
                         <<Move("App.css", srcPath \o <<"styles">>),
                           Move("index.css", srcPath \o <<"styles">>)>>)
                  s3 == updateAppCssImports(s2, proj, srcPath, <<"styles">>, architecture)
             IN  updateMainCssImports(s3, proj, srcPath, architecture)
    )

\* Move root CSS files (the closing loop of reorganizeSvelteProject)
MoveSvelteRootCss(st0, proj, srcPath, libPath, architecture) ==
    Bind(st0, LAMBDA st :
       Bind(readDirectoryState(st, proj, srcPath), LAMBDA s0 :
          IF /\ ~Throws(s0)
             /\ "app.css" \in readDirectory(st, proj, srcPath)
             /\ pathExists(s0, proj, srcPath \o <<"app.css">>)
          THEN updateSvelteCssImport(
                   moveFile(s0, proj, srcPath \o <<"app.css">>, libPath \o <<"shared", "styles", "app.css">>),
                   proj, srcPath, architecture)
          ELSE s0))

\* Reorganize Svelte project (uses src/lib/ structure)
reorganizeSvelteProject(st0, proj, srcPath, architecture) ==
    Bind(st0, LAMBDA st :
    LET libPath == srcPath \o <<"lib">>
        libFiles == readDirectory(st, proj, libPath)
        s0 == readDirectoryState(st, proj, libPath)
    IN  IF architecture = "feature-based"
        THEN LET s1 == CreateAll(s0, proj,
                         <<srcPath \o <<"features", "example", "components">>,
                           srcPath \o <<"features", "example", "stores">>,
                           srcPath \o <<"features", "example", "utils">>,
                           libPath \o <<"shared", "components">>,
                           libPath \o <<"shared", "stores">>,
                           libPath \o <<"shared", "utils">>,
                           libPath \o <<"shared", "styles">>>>)
                  s2 == MoveEach(s1, proj, libPath, libFiles,
                         <<Move("Counter.svelte", libPath \o <<"shared", "components">>)>>)
                  s3 == updateSvelteAppImports(s2, proj, srcPath, <<"lib", "shared", "components">>)
             IN  MoveSvelteRootCss(s3, proj, srcPath, libPath, architecture)
        ELSE LET s1 == CreateAll(s0, proj,
                         <<libPath \o <<"components", "common">>,
                           libPath \o <<"components", "layout">>,
                           libPath \o <<"stores">>,
                           libPath \o <<"utils">>,
                           libPath \o <<"styles">>>>)
                  s2 == MoveEach(s1, proj, libPath, libFiles,
                         <<Move("Counter.svelte", libPath \o <<"components", "common">>)>>)
                  s3 == updateSvelteAppImports(s2, proj, srcPath, <<"lib", "components", "common">>)
             IN  MoveSvelteRootCss(s3, proj, srcPath, libPath, architecture)
    )

\* a reorganization that also takes the application root file along
reorganizeViteProjectMovingApp(st0, proj, architecture, framework) ==
    Bind(IF framework = "svelte"
         THEN reorganizeSvelteProject(st0, proj, <<"src">>, architecture)
         ELSE reorganizeReactProject(st0, proj, <<"src">>, architecture),
         LAMBDA s1 :
            Bind(FirstExisting(s1, proj, <<"src">>, <<"App.tsx", "App.jsx", "App.svelte">>),
                 LAMBDA app : IF Throws(s1) \/ app = "" THEN s1
                              ELSE moveFile(s1, proj, <<"src", app>>, <<"src", "components", app>>)))

\* Reorganize Vite projects (React/Svelte) after creation
reorganizeViteProject(st0, proj, architecture, framework) ==
    Bind(st0, LAMBDA st :
    IF framework = "svelte"
    THEN reorganizeSvelteProject(st, proj, <<"src">>, architecture)
    ELSE reorganizeReactProject(st, proj, <<"src">>, architecture)
    )

-----------------------------------------------------------------------------
(* Skeleton builder (project-scaffolding.ts)                               *)

\* a source root that is nested in src for every language
SrcDirNested(language) == <<"src">>

SrcDir(language) == IF language = "python" THEN <<>> ELSE <<"src">>

createMVCStructure(st, proj, language) ==
    LET srcDir == SrcDir(language)
    IN  CreateAll(st, proj,
            <<srcDir \o <<"models">>, srcDir \o <<"views">>, srcDir \o <<"controllers">>,
              srcDir \o <<"routes">>, srcDir \o <<"config">>, srcDir \o <<"middlewares">>,
              srcDir \o <<"utils">>, <<"tests">>>>)

\* a hexagonal skeleton that forgets the http adapter directory
createHexagonalStructureNoHttp(st, proj, language) ==
    LET srcDir == SrcDir(language)
    IN  CreateAll(st, proj,
            <<srcDir \o <<"domain", "entities">>, srcDir \o <<"domain", "repositories">>,
              srcDir \o <<"domain", "services">>, srcDir \o <<"application", "use-cases">>,
              srcDir \o <<"application", "dto">>, srcDir \o <<"infrastructure", "adapters">>,
              srcDir \o <<"infrastructure", "persistence">>,
              <<"tests">>>>)

createHexagonalStructure(st, proj, language) ==
    LET srcDir == SrcDir(language)
    IN  CreateAll(st, proj,
            <<srcDir \o <<"domain", "entities">>, srcDir \o <<"domain", "repositories">>,
              srcDir \o <<"domain", "services">>, srcDir \o <<"application", "use-cases">>,
              srcDir \o <<"application", "dto">>, srcDir \o <<"infrastructure", "adapters">>,
              srcDir \o <<"infrastructure", "persistence">>, srcDir \o <<"infrastructure", "http">>,
              <<"tests">>>>)

\* a layered skeleton that forgets the config directory
createLayeredStructureNoConfig(st, proj, language) ==
    LET srcDir == SrcDir(language)
    IN  CreateAll(st, proj,
            <<srcDir \o <<"presentation">>, srcDir \o <<"business">>, srcDir \o <<"data">>,
              <<"tests">>>>)

createLayeredStructure(st, proj, language) ==
    LET srcDir == SrcDir(language)
    IN  CreateAll(st, proj,
            <<srcDir \o <<"presentation">>, srcDir \o <<"business">>, srcDir \o <<"data">>,
              srcDir \o <<"config">>, <<"tests">>>>)

createLayeredScreamingStructure(st, proj, language) ==
    LET srcDir == SrcDir(language)
    IN  CreateAll(st, proj,
            <<srcDir \o <<"features", "example-feature", "presentation">>,
              srcDir \o <<"features", "example-feature", "business">>,
              srcDir \o <<"features", "example-feature", "data">>,
              srcDir \o <<"shared", "config">>, srcDir \o <<"shared", "utils">>,
              <<"tests">>>>)

createComponentBasedStructure(st, proj) ==
    CreateAll(st, proj,
        <<<<"src", "components", "common">>, <<"src", "components", "layout">>,
          <<"src", "pages">>, <<"src", "hooks">>, <<"src", "utils">>,
          <<"src", "styles">>, <<"src", "assets">>, <<"public">>>>)

createFeatureBasedStructure(st, proj) ==
    CreateAll(st, proj,
        <<<<"src", "features", "example-feature", "components">>,
          <<"src", "features", "example-feature", "hooks">>,
          <<"src", "features", "example-feature", "utils">>,
          <<"src", "shared", "components">>, <<"src", "shared", "hooks">>,
          <<"src", "shared", "utils">>, <<"src", "styles">>, <<"src", "assets">>,
          <<"public">>>>)

createGoLayeredStructure(st, proj) ==
    CreateAll(st, proj,
        <<<<"cmd", "api">>,
          <<"internal", "delivery", "http", "handler">>,
          <<"internal", "delivery", "http", "middleware">>,
          <<"internal", "business">>,
          <<"internal", "data", "repository">>,
          <<"internal", "infrastructure", "database">>,
          <<"internal", "infrastructure", "config">>,
          <<"pkg">>>>)

createGoMVCStructure(st, proj) ==
    CreateAll(st, proj,
        <<<<"cmd", "api">>,
          <<"internal", "models">>, <<"internal", "views">>, <<"internal", "controllers">>,
          <<"internal", "routes">>, <<"internal", "middleware">>,
          <<"internal", "infrastructure", "database">>,
          <<"internal", "infrastructure", "config">>,
          <<"pkg">>>>)

createGoHexagonalStructure(st, proj) ==
    CreateAll(st, proj,
        <<<<"cmd", "api">>,
          <<"internal", "domain", "entity">>, <<"internal", "domain", "repository">>,
          <<"internal", "usecase">>,
          <<"internal", "delivery", "http", "handler">>,
          <<"internal", "delivery", "http", "middleware">>,
          <<"internal", "infrastructure", "database">>,
          <<"internal", "infrastructure", "config">>,
          <<"pkg">>>>)

createGoLayeredScreamingStructure(st, proj) ==
    CreateAll(st, proj,
        <<<<"cmd", "api">>,
          <<"internal", "features", "example", "handler">>,
          <<"internal", "features", "example", "business">>,
          <<"internal", "features", "example", "repository">>,
          <<"internal", "shared", "middleware">>, <<"internal", "shared", "utils">>,
          <<"internal", "infrastructure", "database">>,
          <<"internal", "infrastructure", "config">>,
          <<"pkg">>>>)

\* Go-specific structures following Go conventions
createGoStructure(st0, proj, architecture) ==
    Bind(st0, LAMBDA st :
    CASE architecture = "mvc"               -> createGoMVCStructure(st, proj)
      [] architecture = "hexagonal"         -> createGoHexagonalStructure(st, proj)
      [] architecture = "layered"           -> createGoLayeredStructure(st, proj)
      [] architecture = "layered-screaming" -> createGoLayeredScreamingStructure(st, proj)
      [] OTHER                              -> createGoLayeredStructure(st, proj)
    )

createBackendStructure(st0, config) ==
    Bind(st0, LAMBDA st :
    LET proj == config.projectPath
    IN  IF config.framework = "django" THEN st
        ELSE IF config.language = "go" THEN createGoStructure(st, proj, config.architecture)
        ELSE CASE config.architecture = "mvc"               -> createMVCStructure(st, proj, config.language)
               [] config.architecture = "hexagonal"         -> createHexagonalStructure(st, proj, config.language)
               [] config.architecture = "layered"           -> createLayeredStructure(st, proj, config.language)
               [] config.architecture = "layered-screaming" -> createLayeredScreamingStructure(st, proj, config.language)
               [] OTHER                                     -> createLayeredStructure(st, proj, config.language)
    )

createFrontendStructure(st0, config) ==
    Bind(st0, LAMBDA st :
    IF config.architecture = "feature-based"
    THEN createFeatureBasedStructure(st, config.projectPath)
    ELSE createComponentBasedStructure(st, config.projectPath)
    )

createFullstackStructure(st, config) ==
    CreateAll(st, config.projectPath, <<<<"src">>, <<"public">>>>)

-----------------------------------------------------------------------------
(* External generator adapter and createProjectStructure                   *)

\* the try block of createProjectWithCLI: the switch over the framework
GeneratorSwitch(st0, config, w) ==
    Bind(st0, LAMBDA st :
    LET framework == config.framework
        parentDir == Dirname(config.projectPath)
        normalizedName == normalizeProjectName(framework, config.projectName)
        Gen(s, cmd) == RunGenerator(s, cmd, parentDir, normalizedName, framework, config.language, w)
    IN  CASE framework = "nestjs"    -> Gen(st, "npx -y @nestjs/cli new")
          [] framework = "nextjs"    -> Gen(st, "npx create-next-app@latest")
          [] framework = "react"     -> Gen(st, "npx --yes create-vite@latest")
          [] framework = "svelte"    -> Gen(st, "npx --yes create-vite@latest")
          [] framework = "sveltekit" -> Gen(st, "npx sv create")
          [] framework = "angular"   ->
               Gen(Bind(checkCommandExists(st, "which ng", w.hasNg), LAMBDA hasAngularCLI :
                      IF hasAngularCLI.ret THEN hasAngularCLI.st
                      ELSE execSync(hasAngularCLI.st, "npm install -g @angular/cli", NoPath, w.ngInstall)),
                   "ng new")
          [] OTHER                   -> st
    )

\* the frameworks the switch of createProjectWithCLI has a case for
GeneratorCases == {"nestjs", "nextjs", "react", "svelte", "sveltekit", "angular"}

\* an adapter that reports the generated path although the generator failed
createProjectWithCLIIgnoringFailure(st0, config, w) ==
    Bind(GeneratorSwitch(st0, config, w), LAMBDA body :
       IF config.framework \in GeneratorCases
       THEN [st |-> Caught(body),
             ret |-> PathJoin(Dirname(config.projectPath),
                              normalizeProjectName(config.framework, config.projectName))]
       ELSE [st |-> body, ret |-> NoPath])

\* returns the execution state and the path created, NoPath standing for null
createProjectWithCLI(st0, config, w) ==
    Bind(GeneratorSwitch(st0, config, w), LAMBDA body :
       IF Throws(body) THEN [st |-> Caught(body), ret |-> NoPath]
       ELSE IF config.framework \in GeneratorCases
            THEN [st |-> body,
                  ret |-> PathJoin(Dirname(config.projectPath),
                                   normalizeProjectName(config.framework, config.projectName))]
       ELSE [st |-> body, ret |-> NoPath])

\* a branch that reorganizes the output of every generator
ReconcileGeneratedAlways(st0, config, actualPath) ==
    Bind(reorganizeViteProject(st0, actualPath, config.architecture, config.framework),
         LAMBDA s1 : IF config.framework = "svelte"
                     THEN configureSvelteAliases(s1, actualPath)
                     ELSE s1)

\* the `if (actualPath)` branch of createProjectStructure: reorganize the
\* output of create-vite, then configure the $lib alias for svelte
ReconcileGenerated(st0, config, actualPath) ==
    Bind(IF config.framework \in {"react", "svelte"}
         THEN reorganizeViteProject(st0, actualPath, config.architecture, config.framework)
         ELSE st0,
         LAMBDA s1 : IF config.framework = "svelte"
                     THEN configureSvelteAliases(s1, actualPath)
                     ELSE s1)

\* returns the execution state, the path returned and whether the CLI made it
createProjectStructure(st0, config, w) ==
    Bind(createProjectWithCLI(st0, config, w), LAMBDA cli :
       IF cli.ret # NoPath
       THEN [st |-> ReconcileGenerated(cli.st, config, cli.ret),
             ret |-> cli.ret, viaCLI |-> TRUE]
       ELSE [st |-> Bind(createDirectory(cli.st, config.projectPath, <<>>),
                         LAMBDA s1 : CASE config.projectType = "backend"   -> createBackendStructure(s1, config)
                                       [] config.projectType = "frontend"  -> createFrontendStructure(s1, config)
                                       [] config.projectType = "fullstack" -> createFullstackStructure(s1, config)
                                       [] OTHER                            -> s1),
             ret |-> config.projectPath, viaCLI |-> FALSE])

-----------------------------------------------------------------------------
(* Initialization writer (project-scaffolding.ts)                          *)

RECURSIVE WriteAll(_, _, _)
\* consecutive `await writeFile(...)` statements; each item is <<path, content>>
WriteAll(st0, proj, items) ==
    Bind(st0, LAMBDA st :
    IF items = <<>> THEN st
    ELSE WriteAll(writeFile(st, proj, Head(items)[1], Head(items)[2]), proj, Tail(items))
    )

initializeDjangoProject(st, proj) ==
    WriteAll(st, proj,
        << << <<".python-version">>, <<Code("3.11")>> >>,
           << <<".gitignore">>, <<Code(".venv/")>> >>,
           << <<"requirements.txt">>, <<Code("# Dependencies")>> >>,
           << <<"README.md">>, <<Named("title", Basename(proj))>> >> >>)

initializePythonProject(st0, proj, framework) ==
    Bind(st0, LAMBDA st :
    IF framework = "django" THEN initializeDjangoProject(st, proj)
    ELSE WriteAll(st, proj,
        << << <<"pyproject.toml">>, <<Named("name", Basename(proj)), Code(framework)>> >>,
           << <<"main.py">>, <<Code(framework)>> >>,
           << <<".python-version">>, <<Code("3.11")>> >> >>)
    )

initializeNodeProject(st, proj, language, framework) ==
    LET isTypeScript == language = "typescript"
        ext == IF isTypeScript THEN "index.ts" ELSE "index.js"
        s1 == writeFile(st, proj, <<"package.json">>,
                  <<Named("name", Basename(proj)), Code(framework),
                    Code(IF isTypeScript THEN "main: src/index.ts" ELSE "main: src/index.js")>>)
        s2 == Bind(s1, LAMBDA s : IF isTypeScript
                                  THEN writeFile(s, proj, <<"tsconfig.json">>, <<Code("rootDir: ./src")>>)
                                  ELSE s)
        s3 == createDirectory(s2, proj, <<"src">>)
    IN  writeFile(s3, proj, <<"src", ext>>, <<Code(framework)>>)

\* executeCommand(`go mod init <module>`, projectPath): creates go.mod or throws
GoModInit(st0, proj, ok) ==
    Bind(st0, LAMBDA st :
       Bind(execSync(st, "go mod init", proj, ok /\ IsDir(st, proj, <<>>)), LAMBDA ran :
          IF Throws(ran) THEN ran
          ELSE [ran EXCEPT !.files =
                   [k \in DOMAIN @ \cup {Key(proj, <<"go.mod">>)} |->
                       IF k = Key(proj, <<"go.mod">>) THEN <<Named("module", Basename(proj))>> ELSE @[k]]]))

\* an initialization in which a failing `go mod init` is not caught
initializeGoProjectUncaught(st, proj, framework, w) ==
    LET s1 == GoModInit(st, proj, w.goMod)
    IN  writeFile(s1, proj, <<"cmd", "api", "main.go">>,
                  <<Code(IF framework \in {"fiber", "gin", "echo"} THEN framework ELSE "Hello from Go!")>>)

initializeGoProject(st, proj, framework, w) ==
    LET s1 == Caught(GoModInit(st, proj, w.goMod))
    IN  writeFile(s1, proj, <<"cmd", "api", "main.go">>,
                  <<Code(IF framework \in {"fiber", "gin", "echo"} THEN framework ELSE "Hello from Go!")>>)

initializeProject(st0, config, w) ==
    Bind(st0, LAMBDA st :
    IF config.framework \in FRAMEWORK_CLIS THEN st
    ELSE IF config.language = "python"
         THEN initializePythonProject(st, config.projectPath, config.framework)
    ELSE IF config.language \in {"typescript", "javascript"}
         THEN initializeNodeProject(st, config.projectPath, config.language, config.framework)
    ELSE IF config.language = "go"
         THEN initializeGoProject(st, config.projectPath, config.framework, w)
    ELSE st
    )

-----------------------------------------------------------------------------
(* Skill installer (utils/skills.ts) and MCP configuration                 *)

RECURSIVE DedupeKeepLast(_, _)
\* a reduce that lets a later skill take the place of an earlier one
DedupeKeepLast(acc, rest) ==
    IF rest = <<>> THEN acc
    ELSE DedupeKeepLast(IF \E s \in Range(acc) : s.path = Head(rest).path
                        THEN [i \in 1..Len(acc) |->
                                 IF acc[i].path = Head(rest).path THEN Head(rest) ELSE acc[i]]
                        ELSE Append(acc, Head(rest)),
                        Tail(rest))

RECURSIVE Dedupe(_, _)
\* allSkills.reduce: keep a skill unless one with the same path was kept
Dedupe(acc, rest) ==
    IF rest = <<>> THEN acc
    ELSE Dedupe(IF \E s \in Range(acc) : s.path = Head(rest).path
                THEN acc ELSE Append(acc, Head(rest)),
                Tail(rest))

combineSkills(defaultSkills, frameworkSkills, additionalSkills) ==
    Dedupe(<<>>, defaultSkills \o frameworkSkills \o additionalSkills)

\* copyDirectory of one bundled skill (a directory holding SKILL.md)
copyDirectory(st, proj, dest) ==
    fsWriteFile(                                                               \* fs.copyFile
        Bind(createDirectory(st, proj, dest), LAMBDA s1 :
           IF Throws(s1) THEN s1
           ELSE IF Faulty(s1) THEN Raise(Tick(s1), IOError) ELSE Tick(s1)),    \* fs.readdir(src)
        proj, dest \o <<"SKILL.md">>, <<Code("skill")>>)

RECURSIVE CopySkillsAborting(_, _, _, _)
\* a copy loop without the try/catch around copyDirectory
CopySkillsAborting(st0, proj, skillsDir, skills) ==
    Bind(st0, LAMBDA st :
    IF skills = <<>> \/ Throws(st) THEN st
    ELSE CopySkillsAborting(copyDirectory(st, proj, skillsDir \o <<Head(skills).path>>),
                            proj, skillsDir, Tail(skills))
    )

RECURSIVE CopySkills(_, _, _, _)
\* for (const skill of skills) { try { copyDirectory } catch { warn } }
CopySkills(st0, proj, skillsDir, skills) ==
    Bind(st0, LAMBDA st :
    IF skills = <<>> \/ Throws(st) THEN st
    ELSE CopySkills(Caught(copyDirectory(st, proj, skillsDir \o <<Head(skills).path>>)),
                    proj, skillsDir, Tail(skills))
    )

installSkills(st, proj, skills) ==
    LET skillsDir == <<".agents", "skills">>
    IN  CopySkills(createDirectory(st, proj, skillsDir), proj, skillsDir, skills)

\* a configuration in which no integration is given its credentials
getMCPConfigurationNoEnv(mcp) ==
    [command |-> "npx", args |-> <<"-y", mcp>>, env |-> <<>>]

\* the record of one integration: command, args and, for the integrations
\* that need credentials, the environment variables to fill in
getMCPConfiguration(mcp) ==
    CASE mcp = "playwright" -> [command |-> "npx", args |-> <<"-y", "@playwright/mcp">>, env |-> <<>>]
      [] mcp = "context7"   -> [command |-> "npx", args |-> <<"-y", "context7-mcp">>, env |-> <<>>]
      [] mcp = "testsprite" -> [command |-> "npx", args |-> <<"-y", "testsprite-mcp">>, env |-> <<>>]
      [] mcp = "supabase"   -> [command |-> "npx", args |-> <<"-y", "supabase-mcp">>,
                                env |-> <<"SUPABASE_URL", "SUPABASE_KEY">>]
      [] mcp = "postgres"   -> [command |-> "npx", args |-> <<"-y", "@crystaldba/postgres-mcp">>,
                                env |-> <<"POSTGRES_URL">>]
      [] mcp = "semgrep"    -> [command |-> "npx", args |-> <<"-y", "semgrep-mcp">>, env |-> <<>>]
      [] mcp = "github"     -> [command |-> "npx", args |-> <<"-y", "@github/mcp-server">>,
                                env |-> <<"GITHUB_TOKEN">>]
      [] mcp = "notion"     -> [command |-> "npx", args |-> <<"-y", "notion-mcp">>,
                                env |-> <<"NOTION_TOKEN">>]
      [] OTHER              -> [command |-> "npx", args |-> <<"-y", mcp>>, env |-> <<>>]

\* one entry of the `mcps` map of config.json: the key in `name`, the
\* command in `quote`, the args in `target`, the names of env in `val`
McpEntry(mcp) ==
    Line("mcp", mcp, getMCPConfiguration(mcp).command, getMCPConfiguration(mcp).args,
         getMCPConfiguration(mcp).env)

createMCPConfig(st, proj, selectedMCPs) ==
    WriteAll(st, proj,
        << << <<".mcp", "config.json">>,
              [i \in 1..Len(selectedMCPs) |-> McpEntry(selectedMCPs[i])] >>,
           << <<".mcp", "README.md">>,
              [i \in 1..Len(selectedMCPs) |-> Line("readme", selectedMCPs[i], "", <<>>, <<>>)] >> >>)

-----------------------------------------------------------------------------
(* program.action (bin/index.ts): inputs                                   *)

\* a character the validation accepts and the generators lower-case, and one
\* the validation rejects
NameAlphabet == {"A", "!"}

MyApp == <<"M", "y", "_", "A", "p", "p">>

\* what the user may type at the project-name prompt
NameInputs == UNION {[1..k -> NameAlphabet] : k \in 0..MaxNameLen} \cup {MyApp}

\* what the user may tick in a checkbox prompt listing `choices`
Selections(choices, selectable) ==
    {SelectSeq(choices, LAMBDA c : c \in picked) :
        picked \in SUBSET Range(SubSeq(choices, 1, selectable))}

languageChoices(projectType) ==
    IF projectType = "backend" THEN BACKEND_LANGUAGES ELSE FRONTEND_LANGUAGES

frameworkChoices(projectType, language) ==
    IF projectType = "backend"
    THEN (IF language \in DOMAIN BACKEND_FRAMEWORKS THEN BACKEND_FRAMEWORKS[language] ELSE <<>>)
    ELSE IF projectType = "frontend"
    THEN (IF language \in DOMAIN FRONTEND_FRAMEWORKS THEN FRONTEND_FRAMEWORKS[language] ELSE <<>>)
    ELSE (IF language \in DOMAIN FULLSTACK_FRAMEWORKS THEN FULLSTACK_FRAMEWORKS[language] ELSE <<>>)

frameworksNeedingArchitecture ==
    {"fastapi", "express", "fastify", "flask", "fiber", "gin", "echo", "react", "svelte"}

architectureChoices(projectType, language) ==
    IF projectType = "backend" \/ language = "go"
    THEN BACKEND_ARCHITECTURES ELSE FRONTEND_ARCHITECTURES

\* a default that does not look at the kind of project
defaultArchitectureAlwaysLayered(projectType, language) == "layered"

defaultArchitecture(projectType, language) ==
    IF projectType = "backend" \/ language = "go" THEN "layered" ELSE "component-based"

\* the outside world of one createProjectStructure call
Worlds(framework, language) ==
    {w \in [gen : {"ok", "fail", "partial"},
            missing : {m \in SUBSET Optional(framework, language) : Cardinality(m) <= MaxMissing},
            quote : Quotes, hasNg : BOOLEAN, ngInstall : BOOLEAN] :
        /\ framework \notin GeneratorCases => w.gen = "ok"
        /\ w.gen # "ok" => w.missing = {} /\ w.quote = "'"
        /\ w.missing # {} => w.quote = "'"
        /\ framework \notin {"react", "svelte"} => w.quote = "'"
        /\ framework # "angular" => w.hasNg /\ w.ngInstall
        /\ w.hasNg => w.ngInstall
        /\ ~w.ngInstall => w.gen = "ok"}

NoExit == -1

projectPathOf(config) == PathJoin(Cwd, config.projectName)

\* the downstream steps keep using the requested path
FinalProjectPathAsRequested(actualProjectPath, projectPath) == projectPath

\* const finalProjectPath = actualProjectPath || projectPath
FinalProjectPath(actualProjectPath, projectPath) ==
    IF actualProjectPath # NoPath THEN actualProjectPath ELSE projectPath

\* the ProjectConfig handed to createProjectStructure
CreateConfig ==
    [projectName |-> cfg.projectName, projectType |-> cfg.projectType,
     language |-> cfg.language, framework |-> cfg.framework,
     architecture |-> cfg.architecture, projectPath |-> projectPathOf(cfg)]

\* the ProjectConfig handed to initializeProject
InitConfig ==
    [projectName |-> result.finalProjectName, projectType |-> cfg.projectType,
     language |-> cfg.language, framework |-> cfg.framework,
     architecture |-> cfg.architecture, projectPath |-> result.finalProjectPath]

\* a catch block without the special case for the cancellation signal
CatchExitAlwaysOne(err) == 1

\* the catch block of program.action
CatchExit(err) == IF err = CancelError THEN 0 ELSE 1

CatchMessage(err) == IF err = CancelError THEN "Setup cancelled by user" ELSE "Error"

\* end of a step of program.action: on an exception the catch block runs
\* and the process exits, otherwise the flow goes on at `next`
EndStep(st0, next, printed) ==
    \E st \in {st0} :
       /\ fsys' = FsOf(st)
       /\ execLog' = st.log
       /\ IF Throws(st)
          THEN /\ pc' = "done"
               /\ thrown' = st.err
               /\ exitCode' = CatchExit(st.err)
               /\ messages' = messages \cup st.out \cup {CatchMessage(st.err)}
          ELSE /\ pc' = next
               /\ thrown' = thrown
               /\ exitCode' = exitCode
               /\ messages' = messages \cup st.out \cup printed

-----------------------------------------------------------------------------
(* program.action (bin/index.ts): the creation flow                        *)

NoResult ==
    [returned |-> NoPath, viaCLI |-> FALSE, finalProjectPath |-> NoPath, finalProjectName |-> <<>>]

NoTargets ==
    [initialize |-> NoPath, dependencies |-> NoPath, installSkills |-> NoPath,
     configureMCPs |-> NoPath, python |-> NoPath, cd |-> <<>>]

Init ==
    /\ pc = "projectType"
    /\ cfg = [projectType |-> "", language |-> "", framework |-> "", projectName |-> <<>>,
              architecture |-> "default", selectedMCPs |-> <<>>, additionalSkills |-> <<>>]
    /\ fsys = [dirs |-> {}, files |-> <<>>]
    /\ execLog = <<>>
    /\ result = NoResult
    /\ targets = NoTargets
    /\ exitCode = NoExit
    /\ thrown = NoError
    /\ messages = {}

\* a flow that still asks a question once the project has been created
PromptPcsAfterCreation ==
    {"projectType", "language", "framework", "projectName", "architecture", "mcp", "skills",
     "initialize"}

PromptPcs == {"projectType", "language", "framework", "projectName", "architecture", "mcp", "skills"}

\* Step 1: Project Type
PromptProjectType ==
    /\ pc = "projectType"
    /\ \E t \in {"backend", "frontend", "fullstack"} : cfg' = [cfg EXCEPT !.projectType = t]
    /\ pc' = "language"
    /\ UNCHANGED <<fsys, execLog, result, targets, exitCode, thrown, messages>>

\* Step 2: Language Selection
PromptLanguage ==
    /\ pc = "language"
    /\ \E l \in Range(languageChoices(cfg.projectType)) : cfg' = [cfg EXCEPT !.language = l]
    /\ pc' = "framework"
    /\ UNCHANGED <<fsys, execLog, result, targets, exitCode, thrown, messages>>

\* Step 3: Framework Selection
PromptFramework ==
    /\ pc = "framework"
    /\ \E f \in Range(frameworkChoices(cfg.projectType, cfg.language)) :
          cfg' = [cfg EXCEPT !.framework = f]
    /\ pc' = "projectName"
    /\ UNCHANGED <<fsys, execLog, result, targets, exitCode, thrown, messages>>

\* Step 4: Project Name; an input that fails validation is asked again
PromptProjectName ==
    /\ pc = "projectName"
    /\ \E input \in NameInputs :
          IF ValidName(input)
          THEN cfg' = [cfg EXCEPT !.projectName = input] /\ pc' = "architecture"
          ELSE UNCHANGED <<cfg, pc>>
    /\ UNCHANGED <<fsys, execLog, result, targets, exitCode, thrown, messages>>

\* Step 5: Architecture Selection, for the frameworks that are asked about
PromptArchitecture ==
    /\ pc = "architecture"
    /\ cfg.framework \in frameworksNeedingArchitecture
    /\ \E a \in Range(architectureChoices(cfg.projectType, cfg.language)) :
          cfg' = [cfg EXCEPT !.architecture = a]
    /\ pc' = "mcp"
    /\ UNCHANGED <<fsys, execLog, result, targets, exitCode, thrown, messages>>

\* Step 5: default architecture for frameworks with predefined structure
DefaultArchitecture ==
    /\ pc = "architecture"
    /\ cfg.framework \notin frameworksNeedingArchitecture
    /\ cfg' = [cfg EXCEPT !.architecture = defaultArchitecture(cfg.projectType, cfg.language)]
    /\ pc' = "mcp"
    /\ UNCHANGED <<fsys, execLog, result, targets, exitCode, thrown, messages>>

\* Step 6: MCP Selection (confirm, then checkbox)
PromptMCPs ==
    /\ pc = "mcp"
    /\ \E mcps \in Selections(AVAILABLE_MCPS, NumSelectableMCPs) :
          cfg' = [cfg EXCEPT !.selectedMCPs = mcps]
    /\ pc' = "skills"
    /\ UNCHANGED <<fsys, execLog, result, targets, exitCode, thrown, messages>>

\* Step 7: Additional Skills (confirm, then checkbox)
PromptSkills ==
    /\ pc = "skills"
    /\ \E skills \in Selections(ADDITIONAL_SKILLS, NumSelectableSkills) :
          cfg' = [cfg EXCEPT !.additionalSkills = skills]
    /\ pc' = "create"
    /\ UNCHANGED <<fsys, execLog, result, targets, exitCode, thrown, messages>>

\* the user interrupts a prompt: inquirer rejects, the catch block exits
CancelPrompt ==
    /\ pc \in PromptPcs
    /\ pc = "architecture" => cfg.framework \in frameworksNeedingArchitecture
    /\ EndStep(Raise(Start(fsys, execLog, 0), CancelError), pc, {})
    /\ UNCHANGED <<cfg, result, targets>>

\* Create project structure
CreateStructure ==
    /\ pc = "create"
    /\ \E w \in Worlds(cfg.framework, cfg.language) :
         \E fault \in 0..createProjectStructure(Start(fsys, execLog, 0), CreateConfig, w).st.n :
            \E r \in {createProjectStructure(Start(fsys, execLog, fault), CreateConfig, w)} :
               /\ EndStep(r.st, "initialize", {})
               /\ result' = IF Throws(r.st) THEN result
                            ELSE [returned |-> r.ret, viaCLI |-> r.viaCLI,
                                  finalProjectPath |-> FinalProjectPath(r.ret, projectPathOf(cfg)),
                                  finalProjectName |->
                                      Basename(FinalProjectPath(r.ret, projectPathOf(cfg)))]
    /\ UNCHANGED <<cfg, targets>>

\* an initialization step after which the dependency install is passed over
InitializeProjectThenSkills ==
    /\ pc = "initialize"
    /\ \E goMod \in BOOLEAN :
         /\ cfg.language # "go" \/ cfg.framework \in FRAMEWORK_CLIS => goMod
         /\ LET w == [goMod |-> goMod]
            IN  \E fault \in 0..initializeProject(Start(fsys, execLog, 0), InitConfig, w).n :
                   EndStep(initializeProject(Start(fsys, execLog, fault), InitConfig, w),
                           "installSkills",
                           IF goMod THEN {} ELSE {"Could not initialize Go module"})
    /\ targets' = [targets EXCEPT !.initialize = InitConfig.projectPath]
    /\ UNCHANGED <<cfg, result>>

\* Initialize project
InitializeProject ==
    /\ pc = "initialize"
    /\ \E goMod \in BOOLEAN :
         /\ cfg.language # "go" \/ cfg.framework \in FRAMEWORK_CLIS => goMod
         /\ LET w == [goMod |-> goMod]
            IN  \E fault \in 0..initializeProject(Start(fsys, execLog, 0), InitConfig, w).n :
                   EndStep(initializeProject(Start(fsys, execLog, fault), InitConfig, w),
                           "dependencies",
                           IF goMod THEN {} ELSE {"Could not initialize Go module"})
    /\ targets' = [targets EXCEPT !.initialize = InitConfig.projectPath]
    /\ UNCHANGED <<cfg, result>>

\* execSync(installCmd, {cwd}): the package manager fills node_modules or fails
DepsInstall(st0, proj, ok) ==
    Bind(st0, LAMBDA st :
       Bind(execSync(st, "install", proj, ok /\ IsDir(st, proj, <<>>)), LAMBDA ran :
          IF Throws(ran) THEN ran
          ELSE [ran EXCEPT !.dirs = @ \cup {Key(proj, <<"node_modules">>)}]))

\* Install dependencies for React/Svelte after reorganization
InstallDependencies ==
    /\ pc = "dependencies"
    /\ IF cfg.framework \in {"react", "svelte"}
       THEN /\ \E ok \in BOOLEAN :
                 \E ran \in {DepsInstall(Start(fsys, execLog, 0), result.finalProjectPath, ok)} :
                    EndStep(Caught(ran), "installSkills",
                            IF Throws(ran) THEN {"Could not install dependencies automatically"}
                            ELSE {"Dependencies installed!"})
            /\ targets' = [targets EXCEPT !.dependencies = result.finalProjectPath]
       ELSE /\ EndStep(Start(fsys, execLog, 0), "installSkills", {})
            /\ UNCHANGED targets
    /\ UNCHANGED <<cfg, result>>

\* the combined skill list of program.action
AllSkills ==
    combineSkills(
        IF cfg.projectType \in DOMAIN DEFAULT_SKILLS THEN DEFAULT_SKILLS[cfg.projectType] ELSE <<>>,
        IF cfg.framework \in DOMAIN FRAMEWORK_SKILLS THEN FRAMEWORK_SKILLS[cfg.framework] ELSE <<>>,
        cfg.additionalSkills)

\* Install skills
InstallSkills ==
    /\ pc = "installSkills"
    /\ \E fault \in 0..Min(MaxSkillFaultPoint,
                          installSkills(Start(fsys, execLog, 0), result.finalProjectPath, AllSkills).n) :
         \E st \in {installSkills(Start(fsys, execLog, fault), result.finalProjectPath, AllSkills)} :
            EndStep(st, "configureMCPs",
                    IF fault \in 2..st.n THEN {"Warning: Could not copy skill"} ELSE {})
    /\ targets' = [targets EXCEPT !.installSkills = result.finalProjectPath]
    /\ UNCHANGED <<cfg, result>>

\* Configure MCPs
ConfigureMCPs ==
    /\ pc = "configureMCPs"
    /\ IF Len(cfg.selectedMCPs) > 0
       THEN /\ \E fault \in 0..createMCPConfig(Start(fsys, execLog, 0), result.finalProjectPath, cfg.selectedMCPs).n :
                 EndStep(createMCPConfig(Start(fsys, execLog, fault), result.finalProjectPath, cfg.selectedMCPs),
                         "python", {})
            /\ targets' = [targets EXCEPT !.configureMCPs = result.finalProjectPath]
       ELSE /\ EndStep(Start(fsys, execLog, 0), "python", {})
            /\ UNCHANGED targets
    /\ UNCHANGED <<cfg, result>>

RECURSIVE RunAll(_, _, _, _)
\* consecutive execSync calls in one cwd; the failAt-th one exits nonzero
\* each item is <<command, directories it creates, files it creates>>
RunAll(st0, proj, cmds, failAt) ==
    Bind(st0, LAMBDA st :
       IF cmds = <<>> \/ Throws(st) THEN st
       ELSE RunAll(
              Bind(execSync(st, Head(cmds)[1], proj, failAt # 1 /\ IsDir(st, proj, <<>>)), LAMBDA ran :
                 IF Throws(ran) THEN ran
                 ELSE [ran EXCEPT
                         !.dirs = @ \cup {Key(proj, d) : d \in Head(cmds)[2]},
                         !.files = [k \in DOMAIN @ \cup {Key(proj, f) : f \in Head(cmds)[3]} |->
                                      IF k \in DOMAIN @ THEN @[k] ELSE <<Code("generated")>>]]),
              proj, Tail(cmds), failAt - 1))

\* the try block of the Python venv and Django setup
PythonCommands(framework) ==
    <<<<"uv venv .venv", {<<".venv">>}, {}>>>> \o
    (IF framework = "django"
     THEN << <<"uv pip install Django", {}, {}>>,
             <<"django-admin startproject config .", {<<"config">>},
               {<<"manage.py">>, <<"config", "settings.py">>}>>,
             <<"python manage.py migrate", {}, {<<"db.sqlite3">>}>> >>
     ELSE <<>>)

\* Handle Python venv and Django setup
PythonSetup ==
    /\ pc = "python"
    /\ IF cfg.language = "python"
       THEN /\ \E hasUV \in BOOLEAN :
                 \E failAt \in 0..Len(PythonCommands(cfg.framework)) :
                    /\ ~hasUV => failAt = 0
                    /\ IF hasUV
                       THEN \E ran \in {RunAll(checkCommandExists(Start(fsys, execLog, 0),
                                                                   "which uv", TRUE).st,
                                                result.finalProjectPath,
                                                PythonCommands(cfg.framework), failAt)} :
                               EndStep(Caught(ran), "success",
                                       IF Throws(ran)
                                       THEN {"Could not complete Python setup automatically"}
                                       ELSE {"Python environment ready"})
                       ELSE EndStep(checkCommandExists(Start(fsys, execLog, 0), "which uv", FALSE).st,
                                    "success", {"UV is not installed"})
            /\ targets' = [targets EXCEPT !.python = result.finalProjectPath]
       ELSE /\ EndStep(Start(fsys, execLog, 0), "success", {})
            /\ UNCHANGED targets
    /\ UNCHANGED <<cfg, result>>

SuccessMessage == "Project created successfully!"

GoRunCommand == "go run main.go"

\* the commands printed under "Next Steps" after `cd <project>`
NextSteps(language) ==
    IF language = "go" THEN {"go mod tidy", GoRunCommand} ELSE {}

\* the file `go run main.go` names, relative to the directory it is run in
GoRunFile == <<"main.go">>

\* the success message and the next steps; the action then returns
Success ==
    /\ pc = "success"
    /\ pc' = "done"
    /\ messages' = messages \cup {SuccessMessage} \cup NextSteps(cfg.language)
    /\ targets' = [targets EXCEPT !.cd = result.finalProjectName]
    /\ exitCode' = 0
    /\ UNCHANGED <<cfg, fsys, execLog, result, thrown>>

Next ==
    \/ PromptProjectType
    \/ PromptLanguage
    \/ PromptFramework
    \/ PromptProjectName
    \/ PromptArchitecture
    \/ DefaultArchitecture
    \/ PromptMCPs
    \/ PromptSkills
    \/ CancelPrompt
    \/ CreateStructure
    \/ InitializeProject
    \/ InstallDependencies
    \/ InstallSkills
    \/ ConfigureMCPs
    \/ PythonSetup
    \/ Success

Spec == Init /\ [][Next]_vars

-----------------------------------------------------------------------------
(* configureSvelteAliases run twice on arbitrary configs                   *)

\* lines a vite.config.ts may hold: the patch's anchors, its markers, others
ViteLines ==
    {Line("import", "{ svelte }", "'", <<"@sveltejs", "vite-plugin-svelte">>, <<>>),
     DefaultImport("path", "'", <<"path">>),
     Code("plugins: [svelte()],"),
     ResolveAliasLine,
     OtherResolveLine,
     Code("export default defineConfig({")}

\* lines a tsconfig.app.json may hold
TsconfigLines ==
    {Code("\"compilerOptions\": {"), PathsAliasLine, OtherPathsLine, Code("}")}

Contents(lines) == UNION {[1..k -> lines] : k \in 0..MaxConfigLines}

AliasProject == PathJoin(Cwd, MyApp)

AliasFiles == {<<"vite.config.ts">>, <<"tsconfig.app.json">>}

\* a project directory holding any of the two configs with any content
InitAlias ==
    /\ pc = "aliases"
    /\ cfg = [projectType |-> "frontend", language |-> "typescript", framework |-> "svelte",
              projectName |-> MyApp, architecture |-> "component-based",
              selectedMCPs |-> <<>>, additionalSkills |-> <<>>]
    /\ \E present \in SUBSET AliasFiles :
         \E vite \in Contents(ViteLines) : \E tsconfig \in Contents(TsconfigLines) :
            /\ <<"vite.config.ts">> \notin present => vite = <<>>
            /\ <<"tsconfig.app.json">> \notin present => tsconfig = <<>>
            /\ fsys = [dirs  |-> {Key(AliasProject, <<>>)},
                       files |-> [k \in {Key(AliasProject, f) : f \in present} |->
                                     IF k[2] = <<"vite.config.ts">> THEN vite ELSE tsconfig]]
    /\ execLog = <<>>
    /\ result = NoResult
    /\ targets = NoTargets
    /\ exitCode = NoExit
    /\ thrown = NoError
    /\ messages = {}

\* await configureSvelteAliases(actualPath)
ConfigureAliases ==
    /\ pc = "aliases"
    /\ fsys' = FsOf(configureSvelteAliases(Start(fsys, execLog, 0), AliasProject))
    /\ pc' = "aliasesAgain"
    /\ UNCHANGED <<cfg, execLog, result, targets, exitCode, thrown, messages>>

\* configureSvelteAliases invoked once more on what the first run left
ConfigureAliasesAgain ==
    /\ pc = "aliasesAgain"
    /\ fsys' = FsOf(configureSvelteAliases(Start(fsys, execLog, 0), AliasProject))
    /\ pc' = "aliasesDone"
    /\ UNCHANGED <<cfg, execLog, result, targets, exitCode, thrown, messages>>

NextAlias ==
    \/ ConfigureAliases
    \/ ConfigureAliasesAgain

SpecAlias == InitAlias /\ [][NextAlias]_vars

-----------------------------------------------------------------------------
(* The structure reconciler run on what create-vite may have left          *)

\* lines an entry file may hold: the literal import of ./index.css in either
\* quote, other imports of and next to it, other code
EntryLines ==
    {SideEffectImport("'", <<".", "index.css">>),
     SideEffectImport("\"", <<".", "index.css">>),
     DefaultImport("styles", "'", <<".", "index.css">>),
     SideEffectImport("'", <<".", "App.css">>),
     Code("createRoot(document.getElementById('root')).render(<App />)")}

EntryContents == UNION {[1..k -> EntryLines] : k \in 0..MaxEntryLines}

\* the config of a create-vite project
ViteConfigs ==
    {[projectName |-> MyApp, projectType |-> "frontend", language |-> l, framework |-> f,
      architecture |-> a, selectedMCPs |-> <<>>, additionalSkills |-> <<>>] :
        l \in Range(FRONTEND_LANGUAGES), f \in {"react", "svelte"},
        a \in Range(FRONTEND_ARCHITECTURES)}

\* the file system with nothing of the project's src directory in it
WithoutSrc(f) ==
    [dirs  |-> {k \in f.dirs : k[2] = <<>> \/ k[2][1] # "src"},
     files |-> [k \in {x \in DOMAIN f.files : x[2][1] # "src"} |-> f.files[k]]]

\* the file system with the content of one of its files replaced
WithContent(f, key, content) ==
    [f EXCEPT !.files = [k \in DOMAIN @ |-> IF k = key THEN content ELSE @[k]]]

EntryKey(config) == Key(AliasProject, <<"src", ReactMain(config.language)>>)

\* create-vite has just returned: its usual output, or an output lacking
\* some parts or the whole src directory, or one with another entry file
InitReconcile ==
    /\ pc = "reconcile"
    /\ cfg \in ViteConfigs
    /\ \E w \in {x \in Worlds(cfg.framework, cfg.language) : x.gen = "ok"} :
         \E noSrc \in BOOLEAN : \E entry \in EntryContents \cup {<<>>} :
            LET gen == RunGenerator(Start([dirs |-> {}, files |-> <<>>], <<>>, 0),
                                    "npx --yes create-vite@latest", Cwd, cfg.projectName,
                                    cfg.framework, cfg.language, w)
            IN  /\ entry # <<>> =>
                      /\ cfg.framework = "react" /\ ~noSrc /\ w.missing = {} /\ w.quote = "'"
                /\ execLog = gen.log
                /\ fsys = IF noSrc THEN WithoutSrc(FsOf(gen))
                          ELSE IF entry # <<>> THEN WithContent(FsOf(gen), EntryKey(cfg), entry)
                          ELSE FsOf(gen)
    /\ result = NoResult
    /\ targets = NoTargets
    /\ exitCode = NoExit
    /\ thrown = NoError
    /\ messages = {}

\* the `if (actualPath)` branch of createProjectStructure, any one of its
\* system calls failing or none
Reconcile ==
    /\ pc = "reconcile"
    /\ \E fault \in 0..ReconcileGenerated(Start(fsys, execLog, 0), cfg, AliasProject).n :
          EndStep(ReconcileGenerated(Start(fsys, execLog, fault), cfg, AliasProject), "reconciled", {})
    /\ UNCHANGED <<cfg, result, targets>>

NextReconcile == Reconcile

SpecReconcile == InitReconcile /\ [][NextReconcile]_vars

-----------------------------------------------------------------------------
(* createMCPConfig on every selection of integrations                      *)

\* the project has been created; any of the integrations may be ticked
InitMCP ==
    /\ pc = "configureMCPs"
    /\ \E mcps \in Selections(AVAILABLE_MCPS, Len(AVAILABLE_MCPS)) :
          cfg = [projectType |-> "backend", language |-> "typescript", framework |-> "express",
                 projectName |-> MyApp, architecture |-> "mvc",
                 selectedMCPs |-> mcps, additionalSkills |-> <<>>]
    /\ fsys = [dirs |-> {Key(PathJoin(Cwd, MyApp), <<>>)}, files |-> <<>>]
    /\ execLog = <<>>
    /\ result = [returned |-> PathJoin(Cwd, MyApp), viaCLI |-> FALSE,
                 finalProjectPath |-> PathJoin(Cwd, MyApp), finalProjectName |-> MyApp]
    /\ targets = NoTargets
    /\ exitCode = NoExit
    /\ thrown = NoError
    /\ messages = {}

NextMCP == ConfigureMCPs

SpecMCP == InitMCP /\ [][NextMCP]_vars

-----------------------------------------------------------------------------
(* detectPackageManager (utils/package-manager.ts) and the next steps that *)
(* program.action prints with it for a typescript or javascript project    *)

versionCommand(manager) ==
    CASE manager = "pnpm" -> "pnpm --version"
      [] manager = "bun"  -> "bun --version"
      [] manager = "yarn" -> "yarn --version"
      [] manager = "npm"  -> "npm --version"

\* a probing order that starts with the fallback
managersNpmFirst == <<"npm", "pnpm", "bun", "yarn">>

managers == <<"pnpm", "bun", "yarn", "npm">>

RECURSIVE detectFrom(_, _, _)
\* the for loop from the i-th manager on: a version command that exits
\* nonzero is caught and the loop continues; after the loop, "npm"
detectFrom(st0, succeeds, i) ==
    Bind(st0, LAMBDA st :
       IF i > Len(managers) THEN [st |-> st, ret |-> "npm"]
       ELSE Bind(execSync(st, versionCommand(managers[i]), Cwd, succeeds[managers[i]]),
                 LAMBDA ran : IF Throws(ran) THEN detectFrom(Caught(ran), succeeds, i + 1)
                              ELSE [st |-> ran, ret |-> managers[i]]))

detectPackageManager(st, succeeds) == detectFrom(st, succeeds, 1)

getInstallCommand(packageManager) ==
    [pnpm |-> "pnpm install", bun |-> "bun install",
     npm |-> "npm install", yarn |-> "yarn install"][packageManager]

\* `${packageManager === "npm" ? "npm run" : packageManager} <script>`
DevCommand(packageManager, script) ==
    IF script = "start:dev"
    THEN [pnpm |-> "pnpm start:dev", bun |-> "bun start:dev",
          npm |-> "npm run start:dev", yarn |-> "yarn start:dev"][packageManager]
    ELSE [pnpm |-> "pnpm dev", bun |-> "bun dev",
          npm |-> "npm run dev", yarn |-> "yarn dev"][packageManager]

frameworksWithDepsInstalled == {"nestjs", "nextjs", "react", "svelte", "sveltekit", "angular"}

NodeNextSteps(packageManager, framework) ==
    (IF framework \notin frameworksWithDepsInstalled
     THEN {getInstallCommand(packageManager)} ELSE {}) \cup
    {DevCommand(packageManager, IF framework = "nestjs" THEN "start:dev" ELSE "dev")}

\* the answers that lead to a typescript or javascript project
NodeConfigs ==
    UNION {UNION {UNION {
        {[projectType |-> t, language |-> l, framework |-> f, projectName |-> MyApp,
          architecture |-> a, selectedMCPs |-> <<>>, additionalSkills |-> <<>>] :
            a \in IF f \in frameworksNeedingArchitecture
                  THEN Range(architectureChoices(t, l))
                  ELSE {defaultArchitecture(t, l)}} :
        f \in Range(frameworkChoices(t, l))} :
        l \in Range(languageChoices(t)) \cap {"typescript", "javascript"}} :
        t \in {"backend", "frontend", "fullstack"}}

\* the project is complete and the success message has been printed
InitNextSteps ==
    /\ pc = "nextSteps"
    /\ cfg \in NodeConfigs
    /\ fsys = [dirs |-> {Key(PathJoin(Cwd, MyApp), <<>>)}, files |-> <<>>]
    /\ execLog = <<>>
    /\ result = [returned |-> PathJoin(Cwd, MyApp), viaCLI |-> FALSE,
                 finalProjectPath |-> PathJoin(Cwd, MyApp), finalProjectName |-> MyApp]
    /\ targets = [NoTargets EXCEPT !.cd = MyApp]
    /\ exitCode = NoExit
    /\ thrown = NoError
    /\ messages = {SuccessMessage}

\* the typescript / javascript branch of the next steps; `succeeds` tells
\* which version commands exit with 0 on this machine
ShowNodeNextSteps ==
    /\ pc = "nextSteps"
    /\ cfg.language \in {"typescript", "javascript"}
    /\ \E succeeds \in [Range(managers) -> BOOLEAN] :
          \E r \in {detectPackageManager(Start(fsys, execLog, 0), succeeds)} :
             /\ fsys' = FsOf(r.st)
             /\ execLog' = r.st.log
             /\ messages' = messages \cup NodeNextSteps(r.ret, cfg.framework)
    /\ pc' = "done"
    /\ exitCode' = 0
    /\ UNCHANGED <<cfg, result, targets, thrown>>

NextNextSteps == ShowNodeNextSteps

SpecNextSteps == InitNextSteps /\ [][NextNextSteps]_vars

-----------------------------------------------------------------------------
(* combineSkills (utils/skills.ts) on lists that share paths               *)

\* skills of which two have the same directory under different names
SkillPool ==
    {Skill("Clean Code", "clean-code"), Skill("Clean Code (team)", "clean-code"),
     Skill("Vite", "vite")}

SkillLists == UNION {[1..k -> SkillPool] : k \in 0..MaxSkillList}

\* program.action is about to combine the three lists
InitCombine ==
    /\ pc = "combine"
    /\ \E d \in SkillLists, f \in SkillLists, a \in SkillLists :
          cfg = [projectType |-> "backend", language |-> "typescript", framework |-> "express",
                 projectName |-> MyApp, architecture |-> "mvc", selectedMCPs |-> <<>>,
                 defaultSkills |-> d, frameworkSkills |-> f, additionalSkills |-> a]
    /\ fsys = [dirs |-> {Key(PathJoin(Cwd, MyApp), <<>>)}, files |-> <<>>]
    /\ execLog = <<>>
    /\ result = [returned |-> <<>>, viaCLI |-> FALSE,
                 finalProjectPath |-> PathJoin(Cwd, MyApp), finalProjectName |-> MyApp]
    /\ targets = NoTargets
    /\ exitCode = NoExit
    /\ thrown = NoError
    /\ messages = {}

\* const allSkills = combineSkills(defaultSkills, frameworkSkills, selectedAdditionalSkills)
CombineSkills ==
    /\ pc = "combine"
    /\ pc' = "combined"
    /\ result' = [result EXCEPT !.returned =
                     combineSkills(cfg.defaultSkills, cfg.frameworkSkills, cfg.additionalSkills)]
    /\ UNCHANGED <<cfg, fsys, execLog, targets, exitCode, thrown, messages>>

NextCombine == CombineSkills

SpecCombine == InitCombine /\ [][NextCombine]_vars

-----------------------------------------------------------------------------
(* Properties                                                              *)

\* createProjectStructure has returned
Created == result.returned # NoPath

Succeeded == pc = "done" /\ SuccessMessage \in messages

Last(seq) == seq[Len(seq)]

\* the commands program.action and the initialization writer run after creation
PostCreationCommands ==
    {"install", "go mod init"} \cup
    {PythonCommands("django")[i][1] : i \in 1..Len(PythonCommands("django"))}

\* what the post-creation steps leave at the top of a project directory
PostCreationEntries == {".agents", ".mcp", ".venv", "node_modules"}

\* C1: once createProjectStructure has returned a path P, every later step
\* (initializeProject, the dependency install, installSkills, createMCPConfig,
\* the Python setup, the `cd` message) operates on P or basename(P), never on
\* the requested path or name when these differ from P.
C1_DownstreamUsesReturnedPath ==
    Created =>
      /\ \A step \in {"initialize", "dependencies", "installSkills", "configureMCPs", "python"} :
            targets[step] \in {NoPath, result.returned}
      /\ targets.cd \in {<<>>, Basename(result.returned)}
      /\ \A i \in 1..Len(execLog) :
            execLog[i].cmd \in PostCreationCommands => execLog[i].cwd = result.returned
      /\ \A k \in fsys.dirs :
            (k[2] # <<>> /\ k[2][1] \in PostCreationEntries) => k[1] = result.returned

\* a run whose generator normalized the name and whose later steps all acted
C1_Witness ==
    /\ Succeeded
    /\ result.returned # projectPathOf(cfg)
    /\ targets.initialize = result.returned
    /\ targets.installSkills = result.returned
    /\ targets.configureMCPs = result.returned
    /\ targets.cd = Basename(result.returned)
    /\ Key(result.returned, <<".agents", "skills">>) \in fsys.dirs
    /\ Key(result.returned, <<".mcp">>) \in fsys.dirs

\* the files the reconciler relocates and the literal reference to each
RelocatedNames == {"App.css", "index.css", "Counter.svelte", "app.css"}

OldReference(f) ==
    IF f = "Counter.svelte" THEN <<".", "lib", "Counter.svelte">> ELSE <<".", f>>

\* the file an import in a file of src/ refers to; $lib stands for src/lib
Resolve(target) ==
    CASE Head(target) = "."    -> <<"src">> \o Tail(target)
      [] Head(target) = "$lib" -> <<"src", "lib">> \o Tail(target)
      [] OTHER                 -> target

\* the application root files and the bootstrap/entry files
ReferencingFiles ==
    {<<"src", n>> : n \in {"App.tsx", "App.jsx", "App.svelte",
                           "main.tsx", "main.jsx", "main.ts", "main.js"}}

ImportsIn(proj, rel) ==
    IF Key(proj, rel) \in DOMAIN fsys.files
    THEN {l \in Range(fsys.files[Key(proj, rel)]) : l.kind = "import"}
    ELSE {}

\* where the file named f is in the project
LocationOf(proj, f) ==
    {k[2] : k \in {x \in DOMAIN fsys.files : x[1] = proj /\ Last(x[2]) = f}}

\* the reconciler has run to its end on a generator's output
Reconciled == Created /\ result.viaCLI /\ cfg.framework \in {"react", "svelte"}

\* C2: after reconciliation of a react or svelte project, every import
\* reference the reconciler rewrote names exactly the location to which the
\* reconciler moved the referenced file ($lib standing for src/lib).
C2_RewrittenReferencesMatchMoves ==
    Reconciled =>
      \A rel \in ReferencingFiles : \A l \in ImportsIn(result.returned, rel) :
         \A f \in RelocatedNames :
            (Last(l.target) = f /\ l.target # OldReference(f)) =>
               \A p \in LocationOf(result.returned, f) :
                  p # Resolve(OldReference(f)) => Resolve(l.target) = p

\* C3: whenever the reconciler relocates a file and the application root file
\* or the entry file (main.tsx, main.jsx, main.ts, main.js) holds the literal
\* import of the old location, after reconciliation that file holds the new
\* reference and no longer the old one.
C3_NoStaleReference ==
    Reconciled =>
      \A f \in RelocatedNames :
         (/\ LocationOf(result.returned, f) # {}
          /\ Resolve(OldReference(f)) \notin LocationOf(result.returned, f)) =>
            \A rel \in ReferencingFiles : \A l \in ImportsIn(result.returned, rel) :
               l.target # OldReference(f)

\* the mapping table of the skeleton builder for kind backend: per
\* architecture, the directories relative to the source root
BackendTable(architecture) ==
    CASE architecture = "mvc" ->
           {<<"models">>, <<"views">>, <<"controllers">>, <<"routes">>,
            <<"config">>, <<"middlewares">>, <<"utils">>}
      [] architecture = "hexagonal" ->
           {<<"domain", "entities">>, <<"domain", "repositories">>, <<"domain", "services">>,
            <<"application", "use-cases">>, <<"application", "dto">>,
            <<"infrastructure", "adapters">>, <<"infrastructure", "persistence">>,
            <<"infrastructure", "http">>}
      [] architecture = "layered" ->
           {<<"presentation">>, <<"business">>, <<"data">>, <<"config">>}
      [] architecture = "layered-screaming" ->
           {<<"features", "example-feature", "presentation">>,
            <<"features", "example-feature", "business">>,
            <<"features", "example-feature", "data">>,
            <<"shared", "config">>, <<"shared", "utils">>}
      [] OTHER -> {}

\* the source root: the project root for python, a nested src otherwise
SourceRoot(language) == IF language = "python" THEN <<>> ELSE <<"src">>

IsPrefix(a, b) == Len(a) <= Len(b) /\ SubSeq(b, 1, Len(a)) = a

DirsOf(proj) == {k[2] : k \in {d \in fsys.dirs : d[1] = proj}}

\* the directories below root that contain no directory, relative to root
LeafDirsUnder(proj, root) ==
    {SubSeq(d, Len(root) + 1, Len(d)) :
        d \in {x \in DirsOf(proj) :
                 /\ IsPrefix(root, x) /\ x # root
                 /\ ~\E y \in DirsOf(proj) : IsPrefix(x, y) /\ y # x}}

\* the skeleton builder has just built the project of a framework that has
\* no external generator
SkeletonBuilt == pc = "initialize" /\ Created /\ cfg.framework \notin FRAMEWORK_CLIS

\* C4 as stated: for every (kind, language, architecture) the prompts can
\* produce with a framework without generator, the directories created under
\* the source root are exactly those of the table (tests, which the mvc row
\* places at the project root, aside).
C4_SkeletonMatchesTable ==
    SkeletonBuilt =>
       LeafDirsUnder(result.returned, SourceRoot(cfg.language))
          \ (IF cfg.architecture = "mvc" THEN {<<"tests">>} ELSE {})
       = BackendTable(cfg.architecture)

\* C4 (amended): the same, for every such combination other than language
\* go and framework django, and leaving aside the tests directory that every
\* architecture creates at the project root; for django the skeleton builder
\* creates nothing but the project directory.
C4_SkeletonMatchesTableAmended ==
    SkeletonBuilt =>
       IF cfg.framework = "django" THEN DirsOf(result.returned) = {<<>>}
       ELSE IF cfg.language = "go" THEN TRUE
       ELSE /\ LeafDirsUnder(result.returned, SourceRoot(cfg.language)) \ {<<"tests">>}
                  = BackendTable(cfg.architecture)
            /\ <<"tests">> \in DirsOf(result.returned)
            /\ \A d \in DirsOf(result.returned) :
                  cfg.language # "python" /\ Len(d) = 1 => d \in {<<"src">>, <<"tests">>}

C4_Witness ==
    /\ SkeletonBuilt
    /\ cfg.framework = "express" /\ cfg.architecture = "layered"
    /\ Key(result.returned, <<"src", "config">>) \in fsys.dirs

\* the generator of the chosen framework was tried and failed, and the
\* skeleton builder has just run instead
FellBack == pc = "initialize" /\ Created /\ ~result.viaCLI /\ cfg.framework \in FRAMEWORK_CLIS

\* C5: when the generator invocation fails, the skeleton builder runs instead
\* and nothing is left over from the failed generator attempt.
C5_FallbackLeavesNoResidue ==
    FellBack =>
       /\ Key(result.returned, <<"src">>) \in fsys.dirs
       /\ DOMAIN fsys.files = {}
       /\ \A k \in fsys.dirs : k[1] = result.returned

\* the manifest and the entry-point stub of the initialization writer
StarterFiles(language) ==
    CASE language = "typescript" -> {<<"package.json">>, <<"src", "index.ts">>}
      [] language = "javascript" -> {<<"package.json">>, <<"src", "index.js">>}
      [] language = "python"     -> {<<"pyproject.toml">>, <<"main.py">>}
      [] language = "go"         -> {<<"cmd", "api", "main.go">>}
      [] OTHER                   -> {}

\* C6: in every run in which no generator created the project, the
\* initialization writer emits the manifest and the entry-point stub (django,
\* whose entry point django-admin writes, aside).
C6_InitWriterRunsUnlessGenerated ==
    (pc = "dependencies" /\ Created /\ ~result.viaCLI /\ cfg.framework # "django") =>
       \A f \in StarterFiles(cfg.language) : Key(result.returned, f) \in DOMAIN fsys.files

\* the run ended in the error exit while reconciling a generator's output
DiedReconciling ==
    /\ pc = "done" /\ exitCode = 1 /\ ~Created
    /\ \E i \in 1..Len(execLog) : execLog[i].cmd = "npx --yes create-vite@latest" /\ execLog[i].ok

\* C7: no failure of a reconciliation sub-step is fatal.
C7_ReconciliationNeverFatal == ~DiedReconciling

\* C8: once the skeleton/generator step has completed, no failure of a later
\* step prevents the run from reaching the success message.
C8_PostCreationAdvisory == (pc = "done" /\ Created) => Succeeded

\* C9: the exit code is 0 exactly when the run succeeded or the user
\* cancelled at a prompt and 1 for every other error; a cancellation is never
\* reported as an error.
C9_ExitCodes ==
    /\ pc = "done" <=> exitCode # NoExit
    /\ pc = "done" =>
         /\ exitCode = 0 <=> (Succeeded \/ thrown = CancelError)
         /\ exitCode = 1 <=> thrown \notin {NoError, CancelError}
         /\ Succeeded <=> thrown = NoError
         /\ thrown = CancelError => "Error" \notin messages

\* the user cancelled after having answered some prompts
C9_Witness ==
    /\ pc = "done" /\ thrown = CancelError /\ exitCode = 0
    /\ cfg.framework # ""

\* the name a normalizing generator gives the project: lower case, every
\* character outside [a-z0-9-] replaced by '-'
IsKebabOf(name, base) ==
    /\ Len(base) = Len(name)
    /\ \A i \in 1..Len(name) :
          /\ name[i] \in Range(LowerCase) \cup Digits \cup {"-"} => base[i] = name[i]
          /\ name[i] \in Range(UpperCase) =>
                \E j \in 1..26 : UpperCase[j] = name[i] /\ LowerCase[j] = base[i]
          /\ name[i] = "_" => base[i] = "-"
    /\ name = MyApp => base = <<"m", "y", "-", "a", "p", "p">>

\* C10: a successful createProjectWithCLI returns parentDir/normalizedName
\* for nestjs and angular (lower case, characters outside [a-z0-9-] replaced
\* by '-'), parentDir/name for every other registered framework, and the
\* initialization writer then writes nothing.
C10_GeneratedPathAndNoInit ==
    [][/\ (pc = "create" /\ pc' = "initialize" /\ result'.viaCLI) =>
            /\ Dirname(result'.returned) = Cwd
            /\ IF cfg.framework \in {"nestjs", "angular"}
               THEN IsKebabOf(cfg.projectName, Basename(result'.returned))
               ELSE Basename(result'.returned) = cfg.projectName
       /\ (pc = "initialize" /\ result.viaCLI) =>
            fsys' = fsys /\ execLog' = execLog /\ pc' = "dependencies"]_vars

C10_Witness ==
    /\ Succeeded /\ result.viaCLI
    /\ cfg.framework = "nestjs" /\ cfg.projectName = MyApp
    /\ Basename(result.returned) = <<"m", "y", "-", "a", "p", "p">>
    /\ Key(result.returned, <<"src", "index.ts">>) \notin DOMAIN fsys.files

\* the initialization writer has run to its end
Initialized == pc \in {"dependencies", "installSkills", "configureMCPs", "python", "success"} \/ Succeeded

\* the line of a manifest that carries its `name`
NameOf(proj, rel) ==
    IF Key(proj, rel) \in DOMAIN fsys.files
    THEN {l.val : l \in {x \in Range(fsys.files[Key(proj, rel)]) : x.kind = "name"}}
    ELSE {}

\* C11: for kind backend, language typescript, a framework without external
\* generator and architecture hexagonal, the resulting tree holds
\* src/domain/entities, src/domain/repositories, src/application/use-cases,
\* src/infrastructure/http and tests at the project root, and a manifest at
\* the project root whose name is the project name the user entered.
C11_ScenarioA ==
    (/\ Initialized /\ cfg.projectType = "backend" /\ cfg.language = "typescript"
     /\ cfg.framework \notin FRAMEWORK_CLIS /\ cfg.architecture = "hexagonal") =>
       /\ result.returned = PathJoin(Cwd, cfg.projectName)
       /\ \A d \in {<<"src", "domain", "entities">>, <<"src", "domain", "repositories">>,
                    <<"src", "application", "use-cases">>, <<"src", "infrastructure", "http">>,
                    <<"tests">>} :
             Key(result.returned, d) \in fsys.dirs
       /\ NameOf(result.returned, <<"package.json">>) = {cfg.projectName}

C11_Witness ==
    /\ Succeeded /\ cfg.projectType = "backend" /\ cfg.language = "typescript"
    /\ cfg.framework = "fastify" /\ cfg.architecture = "hexagonal"
    /\ cfg.projectName = MyApp
    /\ NameOf(PathJoin(Cwd, MyApp), <<"package.json">>) = {MyApp}
    /\ Key(PathJoin(Cwd, MyApp), <<"src", "infrastructure", "http">>) \in fsys.dirs

\* C12: configureSvelteAliases is idempotent: whatever vite.config.ts and
\* tsconfig.app.json held at first, a second run leaves each file with
\* exactly the content it had after the first run.
C12_AliasIdempotent ==
    [][pc = "aliasesAgain" => fsys' = fsys]_vars

\* both runs are over and the first one put both aliases in: each file is
\* longer than any content the runs started from
C12_Witness ==
    /\ pc = "aliasesDone"
    /\ {Key(AliasProject, f) : f \in AliasFiles} \subseteq DOMAIN fsys.files
    /\ Len(fsys.files[Key(AliasProject, <<"vite.config.ts">>)]) = MaxConfigLines + 2
    /\ ResolveAliasLine \in Range(fsys.files[Key(AliasProject, <<"vite.config.ts">>)])
    /\ Len(fsys.files[Key(AliasProject, <<"tsconfig.app.json">>)]) = MaxConfigLines + 1
    /\ PathsAliasLine \in Range(fsys.files[Key(AliasProject, <<"tsconfig.app.json">>)])

\* the reconciler has run to its end on a create-vite output
ReconcilerCompletes == pc = "reconcile" /\ pc' = "reconciled"

\* the literal `import './index.css'`, in either quote
IsLiteralIndexCssImport(l) ==
    l.kind = "import" /\ l.name = "" /\ l.target = <<".", "index.css">>

\* C13: the reference rewrite is pattern-exact: in the entry file, each line
\* holding the literal import of './index.css' becomes the import of
\* './shared/styles/index.css' under feature-based and of './styles/index.css'
\* under component-based, and every other line of the file is left unchanged.
C13_RewriteIsPatternExact ==
    [][(/\ ReconcilerCompletes /\ cfg.framework = "react"
        /\ EntryKey(cfg) \in DOMAIN fsys.files) =>
          /\ EntryKey(cfg) \in DOMAIN fsys'.files
          /\ Len(fsys'.files[EntryKey(cfg)]) = Len(fsys.files[EntryKey(cfg)])
          /\ \A i \in 1..Len(fsys.files[EntryKey(cfg)]) :
                fsys'.files[EntryKey(cfg)][i] =
                   IF IsLiteralIndexCssImport(fsys.files[EntryKey(cfg)][i])
                   THEN SideEffectImport("'",
                            IF cfg.architecture = "feature-based"
                            THEN <<".", "shared", "styles", "index.css">>
                            ELSE <<".", "styles", "index.css">>)
                   ELSE fsys.files[EntryKey(cfg)][i]]_vars

\* an entry file whose literal import was rewritten next to another import
\* of the same stylesheet that was not
C13_Witness ==
    /\ pc = "reconciled" /\ cfg.framework = "react" /\ cfg.architecture = "feature-based"
    /\ EntryKey(cfg) \in DOMAIN fsys.files
    /\ fsys.files[EntryKey(cfg)] =
          <<SideEffectImport("'", <<".", "shared", "styles", "index.css">>),
            DefaultImport("styles", "'", <<".", "index.css">>)>>

\* the relocation rules: the files the reconciler looks for, where it
\* expects each and where it puts it, relative to the project
RelocationRules(framework, architecture) ==
    CASE framework = "react" /\ architecture = "feature-based" ->
           {[from |-> <<"src", "App.css">>, to |-> <<"src", "features", "example", "styles", "App.css">>],
            [from |-> <<"src", "index.css">>, to |-> <<"src", "shared", "styles", "index.css">>]}
      [] framework = "react" ->
           {[from |-> <<"src", "App.css">>, to |-> <<"src", "styles", "App.css">>],
            [from |-> <<"src", "index.css">>, to |-> <<"src", "styles", "index.css">>]}
      [] framework = "svelte" /\ architecture = "feature-based" ->
           {[from |-> <<"src", "lib", "Counter.svelte">>,
             to |-> <<"src", "lib", "shared", "components", "Counter.svelte">>],
            [from |-> <<"src", "app.css">>, to |-> <<"src", "lib", "shared", "styles", "app.css">>]}
      [] framework = "svelte" ->
           {[from |-> <<"src", "lib", "Counter.svelte">>,
             to |-> <<"src", "lib", "components", "common", "Counter.svelte">>],
            [from |-> <<"src", "app.css">>, to |-> <<"src", "lib", "shared", "styles", "app.css">>]}
      [] OTHER -> {}

GeneratorCommands ==
    {"npx -y @nestjs/cli new", "npx create-next-app@latest", "npx --yes create-vite@latest",
     "npx sv create", "npm install -g @angular/cli", "ng new"}

\* the generator command or the Angular CLI pre-install exited nonzero
GeneratorFailed ==
    \E i \in 1..Len(execLog) : execLog[i].cmd \in GeneratorCommands /\ ~execLog[i].ok

\* the directories of the skeleton builder for a project kind (a framework
\* with a generator is never asked about a backend architecture)
SkeletonDirs(projectType, architecture) ==
    CASE projectType = "backend" ->
           {<<"src">> \o d : d \in BackendTable(architecture)} \cup {<<"tests">>}
      [] projectType = "frontend" /\ architecture = "feature-based" ->
           {<<"src", "features", "example-feature", "components">>,
            <<"src", "features", "example-feature", "hooks">>,
            <<"src", "features", "example-feature", "utils">>,
            <<"src", "shared", "components">>, <<"src", "shared", "hooks">>,
            <<"src", "shared", "utils">>, <<"src", "styles">>, <<"src", "assets">>, <<"public">>}
      [] projectType = "frontend" ->
           {<<"src", "components", "common">>, <<"src", "components", "layout">>,
            <<"src", "pages">>, <<"src", "hooks">>, <<"src", "utils">>,
            <<"src", "styles">>, <<"src", "assets">>, <<"public">>}
      [] OTHER -> {<<"src">>, <<"public">>}

\* C15: if the generator command (or the Angular CLI pre-install) throws or
\* exits nonzero, createProjectWithCLI returns null, and createProjectStructure
\* then creates the originally requested projectPath with the skeleton
\* builder's structure for the project kind and returns that projectPath.
C15_GeneratorFailureFallsBack ==
    (Created /\ GeneratorFailed) =>
       /\ ~result.viaCLI
       /\ result.returned = PathJoin(Cwd, cfg.projectName)
       /\ Key(PathJoin(Cwd, cfg.projectName), <<>>) \in fsys.dirs
       /\ \A d \in SkeletonDirs(cfg.projectType, cfg.architecture) :
             Key(PathJoin(Cwd, cfg.projectName), d) \in fsys.dirs

\* `nest new` failed for a name it would have normalized; the skeleton is in
\* the directory of the name as entered
C15_Witness ==
    /\ Created /\ GeneratorFailed
    /\ cfg.framework = "nestjs" /\ cfg.projectName = MyApp
    /\ result.returned = PathJoin(Cwd, MyApp)
    /\ Key(PathJoin(Cwd, MyApp), <<"src", "presentation">>) \in fsys.dirs
    /\ Key(PathJoin(Cwd, <<"m", "y", "-", "a", "p", "p">>), <<>>) \notin fsys.dirs

\* createProjectWithCLI has invoked a generator (or its pre-install)
GeneratorInvoked == \E i \in 1..Len(execLog) : execLog[i].cmd \in GeneratorCommands

\* what the initialization writer leaves for a language and framework
WriterFiles(language, framework) ==
    IF framework = "django" THEN {<<"requirements.txt">>, <<"README.md">>}
    ELSE StarterFiles(language)

\* C16: the frameworks for which createProjectWithCLI invokes an external
\* generator are exactly the keys of FRAMEWORK_CLIS, the registry of the
\* initialization-skip check; for every other framework it returns null
\* without invoking a generator, so the skeleton builder and the
\* initialization writer both run.
C16_GeneratorSetIsRegistry ==
    /\ GeneratorCases = FRAMEWORK_CLIS
    /\ Created =>
          /\ GeneratorInvoked <=> cfg.framework \in FRAMEWORK_CLIS
          /\ cfg.framework \notin FRAMEWORK_CLIS =>
                /\ ~result.viaCLI
                /\ result.returned = PathJoin(Cwd, cfg.projectName)
                /\ Key(result.returned, <<>>) \in fsys.dirs
                /\ cfg.framework # "django" =>
                      \E d \in DirsOf(result.returned) : Len(d) > 0
                /\ Initialized =>
                      \A f \in WriterFiles(cfg.language, cfg.framework) :
                         Key(result.returned, f) \in DOMAIN fsys.files

\* a framework outside the registry: no generator ran, the skeleton and the
\* starter files are there
C16_Witness ==
    /\ Succeeded /\ cfg.framework = "gin" /\ ~GeneratorInvoked
    /\ Key(result.returned, <<"internal", "infrastructure", "config">>) \in fsys.dirs
    /\ Key(result.returned, <<"cmd", "api", "main.go">>) \in DOMAIN fsys.files

\* a directory of the reconciler's overlay for a framework and architecture
OverlayDir(framework, architecture) ==
    CASE framework = "react" /\ architecture = "feature-based" -> <<"src", "features", "example", "styles">>
      [] framework = "react"                                   -> <<"src", "components", "layout">>
      [] framework = "svelte" /\ architecture = "feature-based" -> <<"src", "lib", "shared", "stores">>
      [] OTHER                                                  -> <<"src", "lib", "components", "layout">>

\* directories only the reconciler makes: those of its overlay that neither
\* a generator's output nor a skeleton has
ReconcilerOnlyDirs(proj) ==
    {d \in DirsOf(proj) : IsPrefix(<<"src", "features", "example">>, d) \/ IsPrefix(<<"src", "lib">>, d)}

\* the lines only the alias step writes are in a file of the project
AliasConfigured(proj) ==
    \E k \in DOMAIN fsys.files :
       k[1] = proj /\ (ResolveAliasLine \in Range(fsys.files[k]) \/ PathsAliasLine \in Range(fsys.files[k]))

\* C17: the structure reconciler runs only in runs where the generator
\* returned a path and the framework is react or svelte, the alias step only
\* for svelte; it never runs on the skeleton fallback path nor for nestjs,
\* nextjs, angular or sveltekit, whose output stays as the generator left it.
C17_ReconcilerOnlyForVite ==
    Created =>
       /\ (result.viaCLI /\ cfg.framework \in {"react", "svelte"}) =>
             Key(result.returned, OverlayDir(cfg.framework, cfg.architecture)) \in fsys.dirs
       /\ ~(result.viaCLI /\ cfg.framework \in {"react", "svelte"}) =>
             /\ ReconcilerOnlyDirs(result.returned) = {}
             /\ ~AliasConfigured(result.returned)
       /\ (result.viaCLI /\ cfg.framework \notin {"react", "svelte"}) =>
             /\ \A d \in DirsOf(result.returned) :
                   d \in {<<>>, <<"src">>} \/ d[1] \in PostCreationEntries
             /\ \A f \in DOMAIN OpaqueTemplate(Basename(result.returned)) :
                   /\ Key(result.returned, f) \in DOMAIN fsys.files
                   /\ fsys.files[Key(result.returned, f)] = OpaqueTemplate(Basename(result.returned))[f]
       /\ AliasConfigured(result.returned) => result.viaCLI /\ cfg.framework = "svelte"

\* a svelte project the reconciler worked on, aliases included
C17_Witness ==
    /\ Succeeded /\ result.viaCLI /\ cfg.framework = "svelte" /\ cfg.architecture = "feature-based"
    /\ AliasConfigured(result.returned)
    /\ Key(result.returned, <<"src", "lib", "shared", "components", "Counter.svelte">>) \in DOMAIN fsys.files

FileNames(f) == {Last(k[2]) : k \in DOMAIN f.files}

\* C18: reconciliation is additive: it deletes no file or directory the
\* generator created, every generator file outside the relocation table (in
\* particular App.tsx/App.jsx/App.svelte and main.tsx/main.jsx/main.ts) stays
\* at its original path, and the set of file names after reconciliation
\* equals the set before it.
C18_ReconciliationAdditive ==
    [][pc = "reconcile" =>
          /\ fsys.dirs \subseteq fsys'.dirs
          /\ FileNames(fsys') = FileNames(fsys)
          /\ Cardinality(DOMAIN fsys'.files) = Cardinality(DOMAIN fsys.files)
          /\ \A k \in DOMAIN fsys.files :
                IF \E r \in RelocationRules(cfg.framework, cfg.architecture) : k = Key(AliasProject, r.from)
                THEN \E r \in RelocationRules(cfg.framework, cfg.architecture) :
                        /\ k = Key(AliasProject, r.from)
                        /\ k \in DOMAIN fsys'.files \/ Key(AliasProject, r.to) \in DOMAIN fsys'.files
                ELSE k \in DOMAIN fsys'.files]_vars

\* a reconciled svelte project: Counter.svelte relocated, the application
\* root, the entry file and the asset where create-vite put them
C18_Witness ==
    /\ pc = "reconciled" /\ cfg.framework = "svelte" /\ cfg.architecture = "component-based"
    /\ Key(AliasProject, <<"src", "lib", "components", "common", "Counter.svelte">>) \in DOMAIN fsys.files
    /\ Key(AliasProject, <<"src", "App.svelte">>) \in DOMAIN fsys.files
    /\ Key(AliasProject, <<"src", SvelteMain(cfg.language)>>) \in DOMAIN fsys.files
    /\ Key(AliasProject, <<"src", "assets", "svelte.svg">>) \in DOMAIN fsys.files

\* createProjectStructure is about to be called or has been called
StructureCalled ==
    \/ pc \in {"create", "initialize", "dependencies", "installSkills", "configureMCPs",
               "python", "success"}
    \/ pc = "done" /\ thrown # CancelError

\* C19: whenever createProjectStructure is called, architecture holds a
\* concrete tag and never the placeholder "default": the user's selection for
\* a framework that is asked about, otherwise "layered" if kind is backend or
\* language is go and "component-based" in every other case; the tag is from
\* the backend set when kind is backend or language is go, and from the
\* frontend set otherwise.
C19_ArchitectureResolved ==
    StructureCalled =>
       /\ cfg.architecture # "default"
       /\ cfg.architecture \in
             (IF cfg.projectType = "backend" \/ cfg.language = "go"
              THEN {"mvc", "hexagonal", "layered", "layered-screaming"}
              ELSE {"component-based", "feature-based"})
       /\ cfg.framework \notin {"fastapi", "express", "fastify", "flask", "fiber", "gin", "echo",
                                "react", "svelte"} =>
             cfg.architecture = (IF cfg.projectType = "backend" \/ cfg.language = "go"
                                 THEN "layered" ELSE "component-based")

\* createProjectStructure is about to be called for a framework that is not
\* asked about
C19_Witness ==
    /\ pc = "create"
    /\ cfg.projectType = "fullstack" /\ cfg.framework = "sveltekit"
    /\ cfg.architecture = "component-based"
    /\ cfg.projectName = MyApp

\* the steps of program.action in their order
StepOrder ==
    <<"projectType", "language", "framework", "projectName", "architecture", "mcp", "skills",
      "create", "initialize", "dependencies", "installSkills", "configureMCPs", "python",
      "success", "done">>

\* the step that runs each external command
StepOfCommand(cmd) ==
    CASE cmd \in GeneratorCommands -> "create"
      [] cmd = "which ng"          -> "create"
      [] cmd = "go mod init"       -> "initialize"
      [] cmd = "install"           -> "dependencies"
      [] OTHER                     -> "python"

\* the step that makes each of the post-creation entries of a project
StepOfEntry(entry) ==
    CASE entry = "node_modules" -> "dependencies"
      [] entry = ".agents"      -> "installSkills"
      [] entry = ".mcp"         -> "configureMCPs"
      [] OTHER                  -> "python"

\* C20: the steps run one at a time in a fixed order: all prompts, then
\* generator-or-skeleton with the reconciliation, then initialization, then
\* the react/svelte dependency install, then the skill copy, then the MCP
\* configuration, then the Python setup, then the success message; what a
\* step and its child processes do is complete when the next step starts, so
\* every command and every effect belongs to the step that is running.
C20_StepsInOrder ==
    [][/\ pc' # pc =>
            \/ \E i \in 1..(Len(StepOrder) - 1) : pc = StepOrder[i] /\ pc' = StepOrder[i + 1]
            \/ pc' = "done" /\ thrown' # NoError
       /\ cfg' # cfg => pc \in PromptPcs
       /\ pc \in PromptPcs => fsys' = fsys /\ execLog' = execLog
       /\ Len(execLog') >= Len(execLog) /\ SubSeq(execLog', 1, Len(execLog)) = execLog
       /\ \A i \in (Len(execLog) + 1)..Len(execLog') : StepOfCommand(execLog'[i].cmd) = pc
       /\ \A k \in fsys'.dirs \ fsys.dirs :
             (k[2] # <<>> /\ k[2][1] \in PostCreationEntries) => StepOfEntry(k[2][1]) = pc
       /\ \A k \in fsys'.dirs \ fsys.dirs :
             (k[2] = <<>> \/ k[2][1] \notin PostCreationEntries \cup {"config"}) =>
                pc \in {"create", "initialize"}
       /\ result' # result => pc = "create"
       /\ SuccessMessage \in messages' \ messages => pc = "success"]_vars

\* a django run in which every step it has did its work, in order
C20_Witness ==
    /\ Succeeded /\ cfg.framework = "django" /\ Len(cfg.selectedMCPs) > 0
    /\ [i \in 1..Len(execLog) |-> execLog[i].cmd] =
          <<"which uv", "uv venv .venv", "uv pip install Django", "django-admin startproject config .",
            "python manage.py migrate">>
    /\ \A e \in {<<".agents">>, <<".mcp">>, <<".venv">>, <<"config">>} :
          Key(result.returned, e) \in fsys.dirs
    /\ Key(result.returned, <<"requirements.txt">>) \in DOMAIN fsys.files

SkillWarning == "Warning: Could not copy skill"

\* the skills of the combined list that are not in the project
SkillsNotCopied(f, proj) ==
    {i \in 1..Len(AllSkills) :
        Key(proj, <<".agents", "skills", AllSkills[i].path, "SKILL.md">>) \notin DOMAIN f.files}

\* C21: installSkills creates <project>/.agents/skills under the actual
\* project path and attempts every skill of the combined list, copying each
\* to .agents/skills/<skill path>; a copy failure for one skill only produces
\* a warning and neither aborts the run nor keeps the remaining skills from
\* being copied, so every run that reaches success has .agents/skills.
C21_SkillsInstalled ==
    /\ [](Succeeded => Key(result.returned, <<".agents", "skills">>) \in fsys.dirs)
    /\ [][pc = "installSkills" =>
             IF Key(result.returned, <<".agents", "skills">>) \in fsys'.dirs
             THEN /\ pc' = "configureMCPs" /\ thrown' = NoError
                  /\ Cardinality(SkillsNotCopied(fsys', result.returned)) <= 1
                  /\ SkillsNotCopied(fsys', result.returned) # {} => SkillWarning \in messages'
             ELSE pc' = "done" /\ exitCode' = 1]_vars

\* a successful run in which the copy of the first skill failed and the
\* other skills were copied
C21_Witness ==
    /\ Succeeded /\ SkillWarning \in messages
    /\ SkillsNotCopied(fsys, result.returned) = {1}
    /\ Len(AllSkills) > 2
    /\ Key(result.returned, <<".agents", "skills", AllSkills[Len(AllSkills)].path, "SKILL.md">>)
          \in DOMAIN fsys.files

\* the integrations whose record carries credentials to fill in
NeedsCredentials == {"supabase", "postgres", "github", "notion"}

McpFiles == {<<".mcp", "config.json">>, <<".mcp", "README.md">>}

\* C22: <project>/.mcp/config.json and <project>/.mcp/README.md are written
\* if and only if at least one integration was selected, and the `mcps` map
\* of config.json then has exactly the selected integration tags as keys,
\* each mapped to a record with a command and args (and env for the
\* integrations that need credentials).
C22_MCPConfigIffSelected ==
    /\ \A f \in McpFiles :
          Key(result.finalProjectPath, f) \in DOMAIN fsys.files => Len(cfg.selectedMCPs) > 0
    /\ pc = "python" =>
          /\ \A f \in McpFiles :
                Key(result.finalProjectPath, f) \in DOMAIN fsys.files <=> Len(cfg.selectedMCPs) > 0
          /\ Len(cfg.selectedMCPs) > 0 =>
                LET config == fsys.files[Key(result.finalProjectPath, <<".mcp", "config.json">>)]
                IN  /\ Len(config) = Len(cfg.selectedMCPs)
                    /\ \A i \in 1..Len(config) :
                          /\ config[i].name = cfg.selectedMCPs[i]
                          /\ config[i].quote # "" /\ config[i].target # <<>>
                          /\ config[i].val # <<>> <=> config[i].name \in NeedsCredentials
                    /\ \A i, j \in 1..Len(config) : config[i].name = config[j].name => i = j

\* a configuration of one integration without and two with credentials
C22_Witness ==
    /\ pc = "python"
    /\ cfg.selectedMCPs = <<"playwright", "supabase", "github">>
    /\ Key(result.finalProjectPath, <<".mcp", "README.md">>) \in DOMAIN fsys.files
    /\ Len(fsys.files[Key(result.finalProjectPath, <<".mcp", "config.json">>)]) = 3

\* C23: for every Go project the tool creates, the run command shown in the
\* next steps (`go run main.go`, run from the project root after
\* `cd <project>`) names a file that exists at that path in the project.
C23_GoRunCommandNamesExistingFile ==
    (Succeeded /\ GoRunCommand \in messages) =>
        /\ targets.cd = Basename(result.finalProjectPath)
        /\ Key(result.finalProjectPath, GoRunFile) \in DOMAIN fsys.files

\* the order of preference the package manager is looked for in
PreferenceOrder == <<"pnpm", "bun", "yarn", "npm">>

\* the package managers whose dev command is among the printed next steps
ShownManagers(printed) ==
    {m \in Range(PreferenceOrder) :
        DevCommand(m, "dev") \in printed \/ DevCommand(m, "start:dev") \in printed}

\* C24: detectPackageManager returns the first of pnpm, bun, yarn, npm (in
\* that order) whose version command succeeds, and returns npm when none of
\* them succeeds.
C24_FirstAvailableManager ==
    [][pc = "nextSteps" =>
         LET probes == SubSeq(execLog', Len(execLog) + 1, Len(execLog'))
             n == Len(probes)
         IN  /\ n \in 1..Len(PreferenceOrder)
             /\ \A i \in 1..n : probes[i].cmd = versionCommand(PreferenceOrder[i])
             /\ \A i \in 1..(n - 1) : ~probes[i].ok
             /\ probes[n].ok => ShownManagers(messages') = {PreferenceOrder[n]}
             /\ ~probes[n].ok => n = Len(PreferenceOrder) /\ ShownManagers(messages') = {"npm"}]_vars

\* pnpm and bun are missing, yarn answers: the next steps use yarn
C24_Witness ==
    /\ pc = "done"
    /\ Len(execLog) = 3
    /\ ~execLog[1].ok /\ ~execLog[2].ok /\ execLog[3].ok
    /\ execLog[3].cmd = "yarn --version"
    /\ "yarn install" \in messages /\ "yarn dev" \in messages

\* the imports of a file of the project that go through the `$lib` alias
LibImports(f, proj, rel) ==
    IF Key(proj, rel) \in DOMAIN f.files
    THEN {l \in Range(f.files[Key(proj, rel)]) :
             l.kind = "import" /\ l.target # <<>> /\ Head(l.target) = "$lib"}
    ELSE {}

\* App.svelte and the entry file of a Svelte project
SvelteSources(language) == {<<"src", "App.svelte">>, <<"src", SvelteMain(language)>>}

\* the build-tool config of the project declares the `$lib` alias
LibAliasDeclared(f, proj, language) ==
    /\ Key(proj, <<ViteConfig(language)>>) \in DOMAIN f.files
    /\ ResolveAliasLine \in Range(f.files[Key(proj, <<ViteConfig(language)>>)])

\* C25: after reconciling a Svelte project (TypeScript or JavaScript
\* template), if any import in App.svelte or in the entry file was rewritten
\* to use the `$lib/` prefix, then the build-tool config of that project
\* contains the `$lib` alias entry.
C25_LibImportsHaveAlias ==
    [][(pc = "reconcile" /\ pc' = "reconciled" /\ cfg.framework = "svelte") =>
          ((\E rel \in SvelteSources(cfg.language) :
               LibImports(fsys', AliasProject, rel) \ LibImports(fsys, AliasProject, rel) # {})
           => LibAliasDeclared(fsys', AliasProject, cfg.language))]_vars

\* the skeleton builder has just built a backend project
BackendSkeletonBuilt ==
    pc = "initialize" /\ Created /\ ~result.viaCLI /\ cfg.projectType = "backend"

\* what the convention asks of a typescript, javascript or go skeleton
RootConventionOutsidePython ==
    /\ cfg.language = "go" =>
          /\ <<"cmd", "api">> \in DirsOf(result.returned)
          /\ <<"pkg">> \in DirsOf(result.returned)
          /\ \E d \in DirsOf(result.returned) : Len(d) > 1 /\ d[1] = "internal"
          /\ \A d \in DirsOf(result.returned) : d # <<>> => d[1] \in {"cmd", "internal", "pkg"}
    /\ cfg.language \in {"typescript", "javascript"} =>
          /\ \A d \in BackendTable(cfg.architecture) : <<"src">> \o d \in DirsOf(result.returned)
          /\ \A d \in BackendTable(cfg.architecture) : d \notin DirsOf(result.returned)

\* C26 as stated: the skeleton builder follows the per-language root
\* convention for every backend architecture: for python the architecture
\* directories directly under the project root and no src, for go cmd/api,
\* directories under internal and pkg and no src, for typescript and
\* javascript the architecture directories under src.
C26_RootConvention ==
    BackendSkeletonBuilt =>
       /\ RootConventionOutsidePython
       /\ cfg.language = "python" =>
             /\ \A d \in BackendTable(cfg.architecture) : d \in DirsOf(result.returned)
             /\ <<"src">> \notin DirsOf(result.returned)

\* C26 (amended): the same, but for framework django the skeleton builder
\* creates no architecture directory at all (and no src directory either).
C26_RootConventionExceptDjango ==
    BackendSkeletonBuilt =>
       /\ RootConventionOutsidePython
       /\ cfg.language = "python" =>
             /\ IF cfg.framework = "django"
                THEN DirsOf(result.returned) = {<<>>}
                ELSE \A d \in BackendTable(cfg.architecture) : d \in DirsOf(result.returned)
             /\ <<"src">> \notin DirsOf(result.returned)

\* a hexagonal python skeleton, and its directories are at the project root
C26_Witness ==
    /\ BackendSkeletonBuilt
    /\ cfg.language = "python" /\ cfg.framework = "flask" /\ cfg.architecture = "hexagonal"
    /\ <<"domain", "entities">> \in DirsOf(result.returned)
    /\ <<"src">> \notin DirsOf(result.returned)

\* the external helper commands run after creation
HelperCommands ==
    {"install", "go mod init"} \cup
    {PythonCommands("django")[i][1] : i \in 1..Len(PythonCommands("django"))}

\* the helper commands that exited nonzero between two states of the log
FailedHelpers(before, after) ==
    {i \in (Len(before) + 1)..Len(after) : ~after[i].ok /\ after[i].cmd \in HelperCommands}

\* the step after a step with helper commands, and the warning of the step
FollowingStep(step) ==
    CASE step = "initialize"   -> "dependencies"
      [] step = "dependencies" -> "installSkills"
      [] step = "python"       -> "success"

HelperWarning(step) ==
    CASE step = "initialize"   -> "Could not initialize Go module"
      [] step = "dependencies" -> "Could not install dependencies automatically"
      [] step = "python"       -> "Could not complete Python setup automatically"

\* C27: a failure of an external helper command after creation (the
\* react/svelte dependency install, `go mod init`, `uv venv` and the Django
\* setup commands) or the absence of `uv` is caught and reported as a
\* warning: the run continues with the following steps (for go the starter
\* main.go is still written), reaches the success message and exits 0.
C27_HelperFailureIsWarning ==
    [][/\ (pc \in {"initialize", "dependencies", "python"} /\ FailedHelpers(execLog, execLog') # {}) =>
            /\ thrown' # CommandError
            /\ pc \in {"dependencies", "python"} => thrown' = NoError
            /\ thrown' = NoError =>
                  /\ pc' = FollowingStep(pc) /\ exitCode' = NoExit
                  /\ HelperWarning(pc) \in messages'
                  /\ pc = "initialize" =>
                        Key(result.finalProjectPath, <<"cmd", "api", "main.go">>) \in DOMAIN fsys'.files
       /\ (pc = "python" /\ execLog' = Append(execLog, [cmd |-> "which uv", cwd |-> NoPath, ok |-> FALSE])) =>
            /\ "UV is not installed" \in messages'
            /\ pc' = "success" /\ thrown' = NoError
       /\ pc = "success" => pc' = "done" /\ exitCode' = 0 /\ SuccessMessage \in messages']_vars

\* `go mod init` failed, main.go is there and the run succeeded
C27_Witness ==
    /\ Succeeded /\ exitCode = 0
    /\ cfg.language = "go"
    /\ HelperWarning("initialize") \in messages
    /\ \E i \in 1..Len(execLog) : execLog[i].cmd = "go mod init" /\ ~execLog[i].ok
    /\ Key(result.finalProjectPath, <<"cmd", "api", "main.go">>) \in DOMAIN fsys.files
    /\ Key(result.finalProjectPath, <<"go.mod">>) \notin DOMAIN fsys.files

GlobalInstall == "npm install -g @angular/cli"

\* C28: a global install of a second external tool is attempted only when
\* the framework is angular and the pre-flight check finds `ng` missing, it
\* happens before the generator is invoked, and if that install fails the
\* generator is not invoked and createProjectWithCLI returns null.
C28_GlobalInstallOnlyForMissingNg ==
    [][\A i \in (Len(execLog) + 1)..Len(execLog') :
          execLog'[i].cmd = GlobalInstall =>
             /\ pc = "create" /\ cfg.framework = "angular"
             /\ i > Len(execLog) + 1
             /\ execLog'[i - 1].cmd = "which ng" /\ ~execLog'[i - 1].ok
             /\ \A j \in 1..Len(execLog') :
                   execLog'[j].cmd \in GeneratorCommands \ {GlobalInstall} => j > i
             /\ ~execLog'[i].ok =>
                   /\ \A j \in 1..Len(execLog') : execLog'[j].cmd \notin GeneratorCommands \ {GlobalInstall}
                   /\ ~result'.viaCLI
                   /\ thrown' = NoError => result'.returned = projectPathOf(cfg)]_vars

\* `ng` was missing and its global install failed: the skeleton was built
C28_Witness ==
    /\ pc = "initialize" /\ cfg.framework = "angular"
    /\ [i \in 1..Len(execLog) |-> execLog[i].cmd] = <<"which ng", GlobalInstall>>
    /\ ~execLog[2].ok
    /\ ~result.viaCLI /\ result.returned = projectPathOf(cfg)
    /\ Key(result.returned, <<"src", "components", "common">>) \in fsys.dirs

\* nothing has been written and no external command has been run
Untouched == fsys.dirs = {} /\ DOMAIN fsys.files = {} /\ execLog = <<>>

\* C29: every prompt issued by the tool itself is answered before the first
\* filesystem write and before the first external generator invocation, so a
\* cancellation signalled by the prompt layer ends the run with exit code 0
\* and with no file or directory created by the tool.
C29_PromptsBeforeEffects ==
    /\ [](pc \in PromptPcs => Untouched)
    /\ [](thrown = CancelError => pc = "done" /\ exitCode = 0 /\ Untouched)
    /\ [][/\ cfg' # cfg => Untouched /\ fsys' = fsys /\ execLog' = execLog
          /\ thrown' = CancelError /\ thrown # CancelError => pc \in PromptPcs]_vars

\* the user cancelled at the last prompt, after having answered all others
C29_Witness ==
    /\ pc = "done" /\ thrown = CancelError /\ exitCode = 0
    /\ cfg.projectName = MyApp /\ cfg.architecture = "hexagonal" /\ Len(cfg.selectedMCPs) > 0
    /\ Untouched

\* the three lists in the order they are combined in
CombinedInput == cfg.defaultSkills \o cfg.frameworkSkills \o cfg.additionalSkills

\* where a path occurs first in a list of skills
FirstIndex(skills, path) ==
    CHOOSE i \in 1..Len(skills) :
       skills[i].path = path /\ \A j \in 1..(i - 1) : skills[j].path # path

\* C30: combineSkills returns a list in which no two skills share a path,
\* which contains every path occurring in the default, framework or
\* additional lists, and which keeps the first occurrence of each path in the
\* order default, framework, additional.
C30_CombineSkillsKeepsFirst ==
    pc = "combined" =>
       LET out == result.returned
       IN  /\ \A i, j \in 1..Len(out) : out[i].path = out[j].path => i = j
           /\ {out[i].path : i \in 1..Len(out)} =
                 {CombinedInput[i].path : i \in 1..Len(CombinedInput)}
           /\ \A k \in 1..Len(out) :
                 out[k] = CombinedInput[FirstIndex(CombinedInput, out[k].path)]
           /\ \A k, l \in 1..Len(out) :
                 k < l => FirstIndex(CombinedInput, out[k].path)
                             < FirstIndex(CombinedInput, out[l].path)

\* the same directory comes from the default list under one name and from
\* the additional list under another: the default one is kept
C30_Witness ==
    /\ pc = "combined"
    /\ cfg.defaultSkills = <<Skill("Clean Code", "clean-code")>>
    /\ cfg.frameworkSkills = <<Skill("Vite", "vite")>>
    /\ cfg.additionalSkills = <<Skill("Clean Code (team)", "clean-code"), Skill("Vite", "vite")>>
    /\ result.returned = <<Skill("Clean Code", "clean-code"), Skill("Vite", "vite")>>

====
